---- MODULE Spec2Model ----
(***************************************************************************)
(* BookMySlot appointment booking service.                                 *)
(*                                                                         *)
(* The model covers the Express router of server/routes/bookings.js, the   *)
(* Mongoose schema of models/Booking.js that the router saves through, and *)
(* the bookings collection they share.  Text is modelled as a sequence of  *)
(* one-character strings so that trim, lowercase, length and the e-mail    *)
(* pattern are computed the way the code computes them.                    *)
(*                                                                         *)
(* Spec takes the requests one at a time: a request arrives (Receive), its *)
(* handler runs to its response (Create, List, DeleteOne, DeleteAll), and  *)
(* the exchange ends (Finish).  The state keeps the request in hand, the   *)
(* collection as the request found it and the response, so that what a     *)
(* handler did can be read off the state it leaves.                        *)
(*                                                                         *)
(* SpecExport is the service with the export route in use.  SpecForm is    *)
(* the booking page: the form a visitor filled in, checked by              *)
(* validateBookingForm and posted by handleSubmit.  SpecTable is the admin *)
(* page: the fetched bookings, the search box and the sort options of      *)
(* BookingsTable, with the arrays held by reference so that sharing and    *)
(* sorting in place show.  SpecDates is the same page with bookings for    *)
(* several days of February, their dates in the form of getFebruaryDates   *)
(* and in the form of the date input.                                      *)
(*                                                                         *)
(* SpecCallers runs the handlers of several callers side by side, each     *)
(* split where it awaits the collection (Arrive, Construct, Save, Delete,  *)
(* Leave).  SpecSubmit is the booking form by steps: the click that posts  *)
(* and the answer that comes back.  SpecAdmin is the admin route: the      *)
(* login form with its timer, the flag in sessionStorage, logout, leaving  *)
(* the route and reloading.  SpecDashboard is the dashboard's fetch of the *)
(* bookings: Refresh, Try Again and the answers to their GETs.             *)
(***************************************************************************)
EXTENDS Integers, Sequences, FiniteSets, TLC

\* ------------------------------------------------------------------ bounds

\* Documents ever constructed by POST /api/bookings in one behaviour.
MaxDocs == 3
\* Last value of the millisecond clock read by Date.now.
MaxClock == 2
\* Longest phone text typed into the booking form.
MaxPhoneLen == 12
\* Longest email text typed into the booking form.
MaxEmailLen == 6
\* Most bookings in a list the admin page fetches.
MaxRows == 3
\* Callers whose requests the server handles side by side.
MaxCallers == 2
\* Callbacks of AdminLogin waiting at setTimeout at one time.
MaxTimeouts == 2
\* GETs of the dashboard out at one time.
MaxGets == 2

\* ------------------------------------------------------- program constants

NameMinLength == 2
NameMaxLength == 100
PhoneMinLength == 10
\* validatePhone of the client: digitsOnly.length === 10
PhoneDigits == 10
\* toLocaleString with timeStyle 'short' prints the time to the minute.
MsPerMinute == 60000

\* --------------------------------------------------------------- text

Digits == {"0", "1", "2", "3", "4", "5", "6", "7", "8", "9"}

\* \s of the JavaScript regular expressions, and the characters trim() drops.
IsSpace(c) == c = " "

\* String.prototype.toLowerCase on one character.
LowerChar(c) ==
    CASE c = "A" -> "a"
      [] c = "B" -> "b"
      [] c = "F" -> "f"
      [] c = "L" -> "l"
      [] OTHER -> c

ToLowerCase(s) == [i \in 1..Len(s) |-> LowerChar(s[i])]

RECURSIVE TrimStart(_)
TrimStart(s) ==
    IF s # <<>> /\ IsSpace(Head(s)) THEN TrimStart(Tail(s)) ELSE s

RECURSIVE TrimEnd(_)
TrimEnd(s) ==
    IF s # <<>> /\ IsSpace(s[Len(s)])
    THEN TrimEnd(SubSeq(s, 1, Len(s) - 1))
    ELSE s

\* String.prototype.trim
Trim(s) == TrimEnd(TrimStart(s))

\* [^\s@]+ : a non-empty run without white space and without "@".
IsLocalRun(s, lo, hi) ==
    /\ lo <= hi
    /\ \A k \in lo..hi : ~IsSpace(s[k]) /\ s[k] # "@"

\* /^[^\s@]+@[^\s@]+\.[^\s@]+$/
MatchesEmailPattern(s) ==
    \E i \in 1..Len(s) : \E j \in 1..Len(s) :
        /\ i < j
        /\ s[i] = "@"
        /\ s[j] = "."
        /\ IsLocalRun(s, 1, i - 1)
        /\ IsLocalRun(s, i + 1, j - 1)
        /\ IsLocalRun(s, j + 1, Len(s))

\* value.replace(/\D/g, '')
DigitsOnly(s) == SelectSeq(s, LAMBDA c : c \in Digits)

\* ------------------------------------------------------- request payloads

Fields == <<"name", "email", "phone", "date", "timeSlot">>
FieldSet == {Fields[i] : i \in 1..Len(Fields)}

\* Marks a key the JSON body does not carry, while the payloads are enumerated.
Missing == <<"undefined">>

Blank == <<" ", " ">>
OneLetter == <<" ", "a", " ">>
Al == <<" ", "A", "l", " ">>
LongName == [i \in 1..(NameMaxLength + 1) |-> "a"]
NoDotEmail == <<"a", "@", "b">>
GoodEmail == <<"A", "@", "b", ".", "c">>
ShortPhone == <<"1", "2", "3", "4", "5">>
TenDigits == <<"9", "8", "7", "6", "5", "4", "3", "2", "1", "0">>
TenLetters == <<"a", "b", "c", "d", "e", "f", "g", "h", "i", "j">>
Feb15 == <<"F", "e", "b", " ", "1", "5">>
Slot10 == <<"1", "0", "-", "1", "1">>

\* A request body: the keys the caller sent, each with its text.
Body(r) == [f \in {g \in FieldSet : r[g] # Missing} |-> r[f]]

\* Every combination of a missing, an invalid and a valid value per field.
CoreRequests ==
    {Body(r) : r \in [name : {Missing, OneLetter, Al},
                      email : {Missing, NoDotEmail, GoodEmail},
                      phone : {Missing, ShortPhone, TenDigits},
                      date : {Missing, Feb15},
                      timeSlot : {Missing, Slot10}]}

\* The values at the edges of the rules, in bodies that carry all five keys.
EdgeRequests ==
    {Body(r) : r \in [name : {Blank, LongName, Al},
                      email : {NoDotEmail, GoodEmail},
                      phone : {TenLetters, TenDigits},
                      date : {Feb15},
                      timeSlot : {Slot10}]}

Requests == CoreRequests \cup EdgeRequests

\* DELETE /api/bookings/:id carries any text: a 24-digit hexadecimal ObjectId
\* (hex, with its value), one the service never handed out included, or text
\* that is no ObjectId.
IdParams ==
    {[hex |-> TRUE, oid |-> n] : n \in 1..(MaxDocs + 1)}
        \cup {[hex |-> FALSE, oid |-> 0]}

\* ---------------------------------------------------------- Booking schema

\* !value of JavaScript for a key of the body: undefined or the empty string.
Falsy(req, f) == f \notin DOMAIN req \/ req[f] = <<>>

\* The text a body carries for a field; none when the key is absent.
FieldText(req, f) == IF f \in DOMAIN req THEN req[f] ELSE <<>>

\* The setters of the schema (trim, lowercase), run by new Booking({...}).
ApplySetters(f, v) ==
    CASE f = "name" -> Trim(v)
      [] f = "email" -> ToLowerCase(Trim(v))
      [] f = "phone" -> Trim(v)
      [] OTHER -> v

\* A variant that hands the whole body to the model: new Booking(req.body).
NewBookingFromBody(req, oid, now) ==
    [_id |-> IF "_id" \in DOMAIN req THEN req._id ELSE oid,
     name |-> ApplySetters("name", FieldText(req, "name")),
     email |-> ApplySetters("email", FieldText(req, "email")),
     phone |-> ApplySetters("phone", FieldText(req, "phone")),
     date |-> ApplySetters("date", FieldText(req, "date")),
     timeSlot |-> ApplySetters("timeSlot", FieldText(req, "timeSlot")),
     createdAt |-> IF "createdAt" \in DOMAIN req THEN req.createdAt ELSE now]

\* A variant whose createdAt default was evaluated once, when the schema was
\* defined (default: Date.now() in place of default: Date.now).
NewBookingStaleDefault(req, oid, now) ==
    [_id |-> oid,
     name |-> ApplySetters("name", FieldText(req, "name")),
     email |-> ApplySetters("email", FieldText(req, "email")),
     phone |-> ApplySetters("phone", FieldText(req, "phone")),
     date |-> ApplySetters("date", FieldText(req, "date")),
     timeSlot |-> ApplySetters("timeSlot", FieldText(req, "timeSlot")),
     createdAt |-> 0]

\* new Booking({name, email, phone, date, timeSlot}): the five paths through
\* their setters, a fresh _id, and createdAt from its default, Date.now.
NewBooking(req, oid, now) ==
    [_id |-> oid,
     name |-> ApplySetters("name", FieldText(req, "name")),
     email |-> ApplySetters("email", FieldText(req, "email")),
     phone |-> ApplySetters("phone", FieldText(req, "phone")),
     date |-> ApplySetters("date", FieldText(req, "date")),
     timeSlot |-> ApplySetters("timeSlot", FieldText(req, "timeSlot")),
     createdAt |-> now]

\* The validators of one path, in the order the schema declares them; the
\* first that fails gives the path's message.
PathError(f, v) ==
    CASE f = "name" ->
            IF v = <<>> THEN <<"Name is required">>
            ELSE IF Len(v) < NameMinLength
                 THEN <<"Name must be at least 2 characters">>
            ELSE IF Len(v) > NameMaxLength
                 THEN <<"Name cannot exceed 100 characters">>
            ELSE <<>>
      [] f = "email" ->
            IF v = <<>> THEN <<"Email is required">>
            ELSE IF ~MatchesEmailPattern(v)
                 THEN <<"Please provide a valid email address">>
            ELSE <<>>
      [] f = "phone" ->
            IF v = <<>> THEN <<"Phone number is required">>
            ELSE IF Len(v) < PhoneMinLength
                 THEN <<"Phone number must be at least 10 digits">>
            ELSE <<>>
      [] f = "date" ->
            IF v = <<>> THEN <<"Appointment date is required">> ELSE <<>>
      [] OTHER ->
            IF v = <<>> THEN <<"Time slot is required">> ELSE <<>>

RECURSIVE ErrorsFrom(_, _)
ErrorsFrom(doc, i) ==
    IF i > Len(Fields) THEN <<>>
    ELSE PathError(Fields[i], doc[Fields[i]]) \o ErrorsFrom(doc, i + 1)

\* A variant that reports the first failing path only.
ValidationMessagesFirstOnly(doc) ==
    IF ErrorsFrom(doc, 1) = <<>> THEN <<>> ELSE <<Head(ErrorsFrom(doc, 1))>>

\* The messages of the ValidationError that save() rejects with:
\* Object.values(error.errors).map(err => err.message), path by path.
ValidationMessages(doc) == ErrorsFrom(doc, 1)

\* -------------------------------------------------- client-side validation

\* A variant that trims the value before it tests it.
ValidateEmailTrimmed(email) == MatchesEmailPattern(Trim(email))

\* validateEmail
ValidateEmail(email) == MatchesEmailPattern(email)

\* validatePhone
ValidatePhone(phone) == Len(DigitsOnly(phone)) = PhoneDigits

\* validateRequired
ValidateRequired(value) == value # <<>> /\ Len(Trim(value)) > 0

\* The message validateBookingForm gives one field, <<>> when it passes.
FormFieldError(f, value) ==
    CASE f = "name" ->
            IF ~ValidateRequired(value) THEN <<"Name is required">>
            ELSE IF Len(Trim(value)) < NameMinLength
                 THEN <<"Name must be at least 2 characters">>
            ELSE <<>>
      [] f = "email" ->
            IF ~ValidateRequired(value) THEN <<"Email is required">>
            ELSE IF ~ValidateEmail(value)
                 THEN <<"Please enter a valid email address">>
            ELSE <<>>
      [] f = "phone" ->
            IF ~ValidateRequired(value) THEN <<"Phone number is required">>
            ELSE IF ~ValidatePhone(value)
                 THEN <<"Please enter exactly 10 digits">>
            ELSE <<>>
      [] f = "date" ->
            IF ~ValidateRequired(value) THEN <<"Please select a date">> ELSE <<>>
      [] OTHER ->
            IF ~ValidateRequired(value) THEN <<"Please select a time slot">> ELSE <<>>

\* A variant that returns at the first field that fails.
ValidateBookingFormFirstOnly(formData) ==
    LET failing == {i \in 1..Len(Fields) : FormFieldError(Fields[i], formData[Fields[i]]) # <<>>}
        first == {i \in failing : \A k \in failing : i <= k}
    IN  [f \in {Fields[i] : i \in first} |-> FormFieldError(f, formData[f])[1]]

\* validateBookingForm: the errors object, keyed by the fields that fail.
ValidateBookingForm(formData) ==
    [f \in {g \in FieldSet : FormFieldError(g, formData[g]) # <<>>} |->
        FormFieldError(f, formData[f])[1]]

\* ------------------------------------------------------------------ state

VARIABLES
    store,      \* the bookings collection, in insertion (natural) order
    clock,      \* the value Date.now returns
    nextOid,    \* the next ObjectId the driver generates
    request,    \* the request the server is handling, if any
    response,   \* the response sent for it, if sent
    storeCall,  \* how the handler's call of the store went, if it made one
    before,     \* the collection as it was when the request arrived
    formData,   \* BookingForm: the values of the five inputs
    errors,     \* BookingForm: the messages shown, by field
    bookingData, \* BookingForm: the booking the success modal shows, if any
    arrays,     \* the arrays of the admin page, by reference
    fetched,    \* AdminDashboard: response.data.data as the last fetch got it
    bookingsProp, \* AdminDashboard: the array its bookings state refers to
    searchTerm, \* AdminDashboard: the text of the search box
    sortConfig, \* BookingsTable: the sort field and direction
    filteredBookings,  \* BookingsTable: the array the filter memo refers to
    sortedBookings,    \* BookingsTable: the array the sort memo refers to
    handlers,   \* the route handlers running side by side, by caller
    isLoading,  \* BookingForm: true from the POST until its answer
    posts,      \* the POSTs of the form that are out, with what they carry
    sessionStorage,  \* the items of the tab's sessionStorage
    isLoggedIn, \* AdminPage: whether it renders the dashboard
    adminLogin, \* AdminLogin: username, password, error, isLoading
    timeouts,   \* the callbacks AdminLogin handed to setTimeout, not yet run
    route,      \* the path the router shows
    dashboard,  \* AdminDashboard: isLoading and error
    gets,       \* the GETs of the dashboard that are out
    got         \* the status of the last answer the dashboard received

\* The state of the pages in the browser.
submission == <<isLoading, posts>>
adminSession == <<sessionStorage, isLoggedIn, adminLogin, timeouts, route>>
fetching == <<dashboard, gets, got>>

client ==
    <<formData, errors, bookingData, arrays, fetched, bookingsProp, searchTerm,
      sortConfig, filteredBookings, sortedBookings, submission, adminSession,
      fetching>>

vars ==
    <<store, clock, nextOid, request, response, storeCall, before, handlers,
      client>>

NoBody == [f \in {} |-> <<>>]
NoId == [hex |-> FALSE, oid |-> 0]

\* A request at the router: the operation, req.body, req.params.id, and when
\* it arrived.
Request(op, body, id, at) == [op |-> op, body |-> body, id |-> id, at |-> at]

Idle == Request("none", NoBody, NoId, 0)

\* res.status(status).json(body)
Respond(op, status, body) == [op |-> op, status |-> status, body |-> body]

NoResponse == Respond("none", 0, [success |-> TRUE])

\* A variant that leaves the flag of the success responses in place.
ServerErrorFlaggedSuccess ==
    [success |-> TRUE, message |-> <<"Server error. Please try again later.">>]

ServerError == [success |-> FALSE, message |-> <<"Server error. Please try again later.">>]

\* The callers whose requests the server may be handling at one time.
Callers == 1..MaxCallers

\* A caller with no request at the server.  Of a request in hand the entry
\* keeps the route (op), req.body, req.params.id, where the handler stands
\* (pc), the document it built, its response, how its call of the store went,
\* and whether a document of that id was stored when the request arrived.
Waiting ==
    [op |-> "none", body |-> NoBody, id |-> NoId, pc |-> "idle",
     newBooking |-> NoBody, res |-> NoResponse, storeCall |-> "none",
     existed |-> FALSE]

\* The server after start-up, its collection empty.
ServerStarted ==
    /\ store = <<>>
    /\ clock = 0
    /\ nextOid = 1
    /\ request = Idle
    /\ response = NoResponse
    /\ storeCall = "none"
    /\ before = <<>>
    /\ handlers = [c \in Callers |-> Waiting]

\* useState({name: '', email: '', phone: '', date: '', timeSlot: ''})
EmptyForm == [f \in FieldSet |-> <<>>]

\* useState({}) of errors: the messages by field, and the one under the key
\* submit (the messages the server sent, none while the key is unset).
NoFieldErrors == [f \in {} |-> ""]
NoErrors == [fields |-> NoFieldErrors, submit |-> <<>>]

\* useState(null) of bookingData
NoBooking == [shown |-> FALSE, data |-> EmptyForm]

\* BookingForm as it mounts.
FormMounted ==
    /\ formData = EmptyForm
    /\ errors = NoErrors
    /\ bookingData = NoBooking
    /\ isLoading = FALSE
    /\ posts = <<>>

\* The references of the three arrays the admin page holds at a time: the
\* one in the bookings state, the one filter() made, the copy that is sorted.
FetchedRef == 1
FilterRef == 2
SortRef == 3

\* useState({field: 'createdAt', direction: 'desc'})
NewestFirstConfig == [field |-> "createdAt", direction |-> "desc"]

\* AdminDashboard and its BookingsTable once the fetch of the mount has
\* brought an empty list: no bookings, no search term; the filter memo hands
\* the bookings array on, the sort memo holds a copy of it.
DashboardMounted ==
    /\ arrays = [r \in {FetchedRef, FilterRef, SortRef} |-> <<>>]
    /\ fetched = <<>>
    /\ bookingsProp = FetchedRef
    /\ searchTerm = <<>>
    /\ sortConfig = NewestFirstConfig
    /\ filteredBookings = FetchedRef
    /\ sortedBookings = SortRef
    /\ dashboard = [isLoading |-> FALSE, error |-> ""]
    /\ gets = 0
    /\ got = 200

\* A tab's sessionStorage with nothing set.
NoItems == [k \in {} |-> ""]

\* useState('') of username, password and error, useState(false) of isLoading
LoginMounted == [username |-> "", password |-> "", error |-> "", isLoading |-> FALSE]

\* A fresh tab at /admin: AdminPage with isLoggedIn false, showing AdminLogin.
AdminPageMounted ==
    /\ sessionStorage = NoItems
    /\ isLoggedIn = FALSE
    /\ adminLogin = LoginMounted
    /\ timeouts = <<>>
    /\ route = "/admin"

Init == ServerStarted /\ FormMounted /\ DashboardMounted /\ AdminPageMounted

\* ----------------------------------------------------------------- store

StoredIds == {store[i]._id : i \in 1..Len(store)}

\* A variant that sorts oldest first (createdAt: 1).
SortedOldestFirst ==
    {[i \in 1..Len(store) |-> store[p[i]]] :
        p \in {q \in [1..Len(store) -> 1..Len(store)] :
                 /\ \A i, j \in 1..Len(store) : i # j => q[i] # q[j]
                 /\ \A i, j \in 1..Len(store) :
                        i < j => store[q[i]].createdAt <= store[q[j]].createdAt}}

\* Booking.find().sort({createdAt: -1}): every document once, createdAt
\* descending; the order among equal createdAt is the store's to choose.
SortedNewestFirst ==
    {[i \in 1..Len(store) |-> store[p[i]]] :
        p \in {q \in [1..Len(store) -> 1..Len(store)] :
                 /\ \A i, j \in 1..Len(store) : i # j => q[i] # q[j]
                 /\ \A i, j \in 1..Len(store) :
                        i < j => store[q[i]].createdAt >= store[q[j]].createdAt}}

\* A variant that keeps the document and blanks its name (a soft delete).
WithoutMarking(oid) ==
    [i \in 1..Len(store) |->
        IF store[i]._id = oid THEN [store[i] EXCEPT !.name = <<>>] ELSE store[i]]

\* A variant whose filter matches every document.
WithoutAny(oid) == SelectSeq(store, LAMBDA d : FALSE)

\* The collection without the document whose _id is oid.
Without(oid) == SelectSeq(store, LAMBDA d : d._id # oid)

\* ---------------------------------------------------------------- router

\* What a handler leaves behind: the collection, the ObjectId counter, the
\* response it sent, and how its call of the store went ("none" when it made
\* no call, "ok", or "failed" when the call threw).
Outcome(newStore, newNextOid, call, res) ==
    [store |-> newStore, nextOid |-> newNextOid, storeCall |-> call, res |-> res]

StoreCall(dbOk) == IF dbOk THEN "ok" ELSE "failed"

\* A variant without the required-fields check: every body goes to save().
PostBookingUnchecked(req, dbOk) ==
    LET newBooking == NewBooking(req, nextOid, clock)
        messages == ValidationMessages(newBooking)
    IN  IF messages # <<>>
        THEN Outcome(store, nextOid, "none",
                 Respond("create", 400, [success |-> FALSE, message |-> messages]))
        ELSE IF ~dbOk
        THEN Outcome(store, nextOid, "failed", Respond("create", 500, ServerError))
        ELSE Outcome(Append(store, newBooking), nextOid + 1, "ok",
                 Respond("create", 201,
                     [success |-> TRUE,
                      message |-> <<"Booking created successfully">>,
                      data |-> newBooking]))

\* A variant that refuses a date and time slot that a stored booking has.
PostBookingSlotTaken(req, dbOk) ==
    IF \E f \in FieldSet : Falsy(req, f)
    THEN Outcome(store, nextOid, "none",
             Respond("create", 400,
                 [success |-> FALSE, message |-> <<"All fields are required">>]))
    ELSE LET newBooking == NewBooking(req, nextOid, clock)
             messages == ValidationMessages(newBooking)
         IN  IF messages # <<>>
             THEN Outcome(store, nextOid, "none",
                      Respond("create", 400,
                          [success |-> FALSE, message |-> messages]))
             ELSE IF \E i \in 1..Len(store) :
                        /\ store[i].date = newBooking.date
                        /\ store[i].timeSlot = newBooking.timeSlot
             THEN Outcome(store, nextOid, "none",
                      Respond("create", 400,
                          [success |-> FALSE,
                           message |-> <<"Time slot is already booked">>]))
             ELSE IF ~dbOk
             THEN Outcome(store, nextOid, "failed",
                      Respond("create", 500, ServerError))
             ELSE Outcome(Append(store, newBooking), nextOid + 1, "ok",
                      Respond("create", 201,
                          [success |-> TRUE,
                           message |-> <<"Booking created successfully">>,
                           data |-> newBooking]))

\* A variant that numbers a document by its place in the collection.
PostBookingNumberedByPlace(req, dbOk) ==
    IF \E f \in FieldSet : Falsy(req, f)
    THEN Outcome(store, nextOid, "none",
             Respond("create", 400,
                 [success |-> FALSE, message |-> <<"All fields are required">>]))
    ELSE LET newBooking == NewBooking(req, Len(store) + 1, clock)
             messages == ValidationMessages(newBooking)
         IN  IF messages # <<>>
             THEN Outcome(store, nextOid, "none",
                      Respond("create", 400,
                          [success |-> FALSE, message |-> messages]))
             ELSE IF ~dbOk
             THEN Outcome(store, nextOid, "failed",
                      Respond("create", 500, ServerError))
             ELSE Outcome(Append(store, newBooking), nextOid + 1, "ok",
                      Respond("create", 201,
                          [success |-> TRUE,
                           message |-> <<"Booking created successfully">>,
                           data |-> newBooking]))

\* router.post('/'); dbOk tells whether the insert of save() reaches the store.
PostBooking(req, dbOk) ==
    IF \E f \in FieldSet : Falsy(req, f)
    THEN Outcome(store, nextOid, "none",
             Respond("create", 400,
                 [success |-> FALSE, message |-> <<"All fields are required">>]))
    ELSE LET newBooking == NewBooking(req, nextOid, clock)
             messages == ValidationMessages(newBooking)
         IN  IF messages # <<>>
             THEN Outcome(store, nextOid, "none",
                      Respond("create", 400,
                          [success |-> FALSE, message |-> messages]))
             ELSE IF ~dbOk
             THEN Outcome(store, nextOid, "failed",
                      Respond("create", 500, ServerError))
             ELSE Outcome(Append(store, newBooking), nextOid + 1, "ok",
                      Respond("create", 201,
                          [success |-> TRUE,
                           message |-> <<"Booking created successfully">>,
                           data |-> newBooking]))

\* router.get('/'): one outcome for each order the store may answer in.
GetBookings(dbOk) ==
    IF dbOk
    THEN {Outcome(store, nextOid, "ok",
              Respond("list", 200,
                  [success |-> TRUE, count |-> Len(bookings), data |-> bookings])) :
            bookings \in SortedNewestFirst}
    ELSE {Outcome(store, nextOid, "failed", Respond("list", 500, ServerError))}

\* A variant that does not look at what findByIdAndDelete returned.
DeleteBookingByIdUnchecked(id, dbOk) ==
    IF ~id.hex
    THEN Outcome(store, nextOid, "none", Respond("deleteOne", 500, ServerError))
    ELSE IF ~dbOk
    THEN Outcome(store, nextOid, "failed", Respond("deleteOne", 500, ServerError))
    ELSE Outcome(Without(id.oid), nextOid, "ok",
             Respond("deleteOne", 200,
                 [success |-> TRUE, message |-> <<"Booking deleted successfully">>]))

\* router.delete('/:id'); findByIdAndDelete casts id to an ObjectId before it
\* sends the query, and throws a CastError when id is not one.
DeleteBookingById(id, dbOk) ==
    IF ~id.hex
    THEN Outcome(store, nextOid, "none", Respond("deleteOne", 500, ServerError))
    ELSE IF ~dbOk
    THEN Outcome(store, nextOid, "failed", Respond("deleteOne", 500, ServerError))
    ELSE IF id.oid \notin StoredIds
    THEN Outcome(store, nextOid, "ok",
             Respond("deleteOne", 404,
                 [success |-> FALSE, message |-> <<"Booking not found">>]))
    ELSE Outcome(Without(id.oid), nextOid, "ok",
             Respond("deleteOne", 200,
                 [success |-> TRUE, message |-> <<"Booking deleted successfully">>]))

\* A variant that reports the documents left instead of the documents removed.
DeleteAllBookingsCountsAfter(dbOk) ==
    IF dbOk
    THEN Outcome(<<>>, nextOid, "ok",
             Respond("deleteAll", 200,
                 [success |-> TRUE, deletedCount |-> 0,
                  message |-> <<"bookings deleted successfully">>]))
    ELSE Outcome(store, nextOid, "failed", Respond("deleteAll", 500, ServerError))

\* router.delete('/'); deletedCount is the number the message starts with.
DeleteAllBookings(dbOk) ==
    IF dbOk
    THEN Outcome(<<>>, nextOid, "ok",
             Respond("deleteAll", 200,
                 [success |-> TRUE, deletedCount |-> Len(store),
                  message |-> <<"bookings deleted successfully">>]))
    ELSE Outcome(store, nextOid, "failed", Respond("deleteAll", 500, ServerError))

\* ---------------------------------------------------------------- actions

\* The requests callers send.
Arrivals ==
    {Request("create", body, NoId, clock) : body \in Requests}
        \cup {Request("list", NoBody, NoId, clock),
              Request("deleteAll", NoBody, NoId, clock)}
        \cup {Request("deleteOne", NoBody, id, clock) : id \in IdParams}

\* Express hands the next request to its route.
Receive ==
    /\ request.op = "none"
    /\ \E r \in Arrivals :
          /\ r.op = "create" => PostBooking(r.body, TRUE).nextOid <= MaxDocs + 1
          /\ request' = r
    /\ before' = store
    /\ UNCHANGED <<store, clock, nextOid, response, storeCall, client, handlers>>

\* The clock of the host moves on, between requests and while one is handled.
Tick ==
    /\ clock < MaxClock
    /\ clock' = clock + 1
    /\ UNCHANGED <<store, nextOid, request, response, storeCall, before, client, handlers>>

Handling(op) == request.op = op /\ response.op = "none"

Create ==
    /\ Handling("create")
    /\ \E dbOk \in BOOLEAN :
          LET outcome == PostBooking(request.body, dbOk)
          IN  /\ store' = outcome.store
              /\ nextOid' = outcome.nextOid
              /\ storeCall' = outcome.storeCall
              /\ response' = outcome.res
    /\ UNCHANGED <<clock, request, before, client, handlers>>

List ==
    /\ Handling("list")
    /\ \E dbOk \in BOOLEAN : \E outcome \in GetBookings(dbOk) :
          /\ store' = outcome.store
          /\ nextOid' = outcome.nextOid
          /\ storeCall' = outcome.storeCall
          /\ response' = outcome.res
    /\ UNCHANGED <<clock, request, before, client, handlers>>

DeleteOne ==
    /\ Handling("deleteOne")
    /\ \E dbOk \in BOOLEAN :
          LET outcome == DeleteBookingById(request.id, dbOk)
          IN  /\ store' = outcome.store
              /\ nextOid' = outcome.nextOid
              /\ storeCall' = outcome.storeCall
              /\ response' = outcome.res
    /\ UNCHANGED <<clock, request, before, client, handlers>>

DeleteAll ==
    /\ Handling("deleteAll")
    /\ \E dbOk \in BOOLEAN :
          LET outcome == DeleteAllBookings(dbOk)
          IN  /\ store' = outcome.store
              /\ nextOid' = outcome.nextOid
              /\ storeCall' = outcome.storeCall
              /\ response' = outcome.res
    /\ UNCHANGED <<clock, request, before, client, handlers>>

\* The response is out; the server waits for the next request.
Finish ==
    /\ response.op # "none"
    /\ request' = Idle
    /\ response' = NoResponse
    /\ storeCall' = "none"
    /\ before' = store
    /\ UNCHANGED <<store, clock, nextOid, client, handlers>>

Next == Receive \/ Tick \/ Create \/ List \/ DeleteOne \/ DeleteAll \/ Finish

Spec == Init /\ [][Next]_vars

\* ------------------------------------------------------------------ export

\* worksheet.columns: the headers, which ExcelJS writes as row 1.
HeaderRow == <<"S.No", "Name", "Email", "Phone", "Date", "Time Slot", "Booked On">>

\* new Date(createdAt).toLocaleString('en-IN', {dateStyle: 'medium',
\* timeStyle: 'short'}): the day and the time of day, to the minute.
ToLocaleString(createdAt) == [minute |-> createdAt \div MsPerMinute]

\* A variant that numbers the rows with the index of forEach.
WorksheetZeroBased(bookings) ==
    <<HeaderRow>> \o
        [i \in 1..Len(bookings) |->
            <<i - 1, bookings[i].name, bookings[i].email, bookings[i].phone,
              bookings[i].date, bookings[i].timeSlot,
              ToLocaleString(bookings[i].createdAt)>>]

\* The rows of the worksheet: the header row, then one row per booking that
\* worksheet.addRow appends in the order of bookings.forEach.
Worksheet(bookings) ==
    <<HeaderRow>> \o
        [i \in 1..Len(bookings) |->
            <<i, bookings[i].name, bookings[i].email, bookings[i].phone,
              bookings[i].date, bookings[i].timeSlot,
              ToLocaleString(bookings[i].createdAt)>>]

ExportError == [success |-> FALSE, message |-> <<"Error exporting data. Please try again.">>]

\* router.get('/export'): one outcome for each order the store may answer in.
ExportBookings(dbOk) ==
    IF dbOk
    THEN {Outcome(store, nextOid, "ok",
              Respond("export", 200, [sheet |-> Worksheet(bookings)])) :
            bookings \in SortedNewestFirst}
    ELSE {Outcome(store, nextOid, "failed", Respond("export", 500, ExportError))}

\* The requests of the admin's side: the export, the deletes, and the creates
\* that fill the collection.
ExportArrivals ==
    {Request("create", body, NoId, clock) : body \in EdgeRequests}
        \cup {Request("export", NoBody, NoId, clock),
              Request("deleteAll", NoBody, NoId, clock)}
        \cup {Request("deleteOne", NoBody, id, clock) : id \in IdParams}

ReceiveForExport ==
    /\ request.op = "none"
    /\ \E r \in ExportArrivals :
          /\ r.op = "create" => PostBooking(r.body, TRUE).nextOid <= MaxDocs + 1
          /\ request' = r
    /\ before' = store
    /\ UNCHANGED <<store, clock, nextOid, response, storeCall, client, handlers>>

Export ==
    /\ Handling("export")
    /\ \E dbOk \in BOOLEAN : \E outcome \in ExportBookings(dbOk) :
          /\ store' = outcome.store
          /\ nextOid' = outcome.nextOid
          /\ storeCall' = outcome.storeCall
          /\ response' = outcome.res
    /\ UNCHANGED <<clock, request, before, client, handlers>>

NextExport ==
    ReceiveForExport \/ Tick \/ Create \/ DeleteOne \/ DeleteAll \/ Export \/ Finish

\* The service with the export route in use.
SpecExport == Init /\ [][NextExport]_vars

\* ----------------------------------------------------------- booking form

\* Phone texts of digits and separators.
PhoneTyped == UNION {[1..n -> {"9", "-"}] : n \in 0..MaxPhoneLen}

\* Email texts of a letter, "@", "." and the space.
EmailTyped == UNION {[1..n -> {"a", "@", ".", " "}] : n \in 0..MaxEmailLen}

\* The forms a visitor submits: every phone text, every email text, and every
\* combination of an empty, an invalid and a valid value per field.
FormInputs ==
    [name : {Al}, email : {GoodEmail}, phone : PhoneTyped,
     date : {Feb15}, timeSlot : {Slot10}]
    \cup [name : {Al}, email : EmailTyped, phone : {TenDigits},
          date : {Feb15}, timeSlot : {Slot10}]
    \cup [name : {<<>>, Blank, OneLetter, Al, LongName},
          email : {<<>>, NoDotEmail, GoodEmail},
          phone : {<<>>, ShortPhone, TenDigits, TenLetters},
          date : {<<>>, Feb15},
          timeSlot : {<<>>, Slot10}]

\* The visitor has filled the form in.
FormFilled ==
    /\ formData \in FormInputs
    /\ errors = NoErrors
    /\ bookingData = NoBooking
    /\ isLoading = FALSE
    /\ posts = <<>>

NoAnswer == <<"Something went wrong. Please try again.">>

\* handleSubmit: the whole-form check, and when it finds nothing the POST of
\* the form to /api/bookings with what the page does on the answer.
HandleSubmit ==
    LET formErrors == ValidateBookingForm(formData)
    IN  /\ IF DOMAIN formErrors # {}
           THEN /\ errors' = [fields |-> formErrors, submit |-> <<>>]
                /\ UNCHANGED <<store, nextOid, formData, bookingData>>
           ELSE \/ \E dbOk \in BOOLEAN :
                     LET outcome == PostBooking(formData, dbOk)
                     IN  /\ store' = outcome.store
                         /\ nextOid' = outcome.nextOid
                         /\ IF outcome.res.body.success
                            THEN /\ bookingData' = [shown |-> TRUE, data |-> formData]
                                 /\ formData' = EmptyForm
                                 /\ errors' = NoErrors
                            ELSE /\ errors' = [fields |-> NoFieldErrors,
                                               submit |-> outcome.res.body.message]
                                 /\ UNCHANGED <<formData, bookingData>>
                \* no response came back: error.response is undefined
                \/ /\ errors' = [fields |-> NoFieldErrors, submit |-> NoAnswer]
                   /\ UNCHANGED <<store, nextOid, formData, bookingData>>
        /\ UNCHANGED <<clock, request, response, storeCall, before, handlers>>
        /\ UNCHANGED <<arrays, fetched, bookingsProp, searchTerm, sortConfig,
                       filteredBookings, sortedBookings>>
        /\ UNCHANGED <<submission, adminSession, fetching>>

InitForm == ServerStarted /\ FormFilled /\ DashboardMounted /\ AdminPageMounted

NextForm == HandleSubmit

\* The booking page: a filled form is submitted.
SpecForm == InitForm /\ [][NextForm]_vars

\* ------------------------------------------------- booking form, by steps

\* What a visitor types or picks, by field.
Typed ==
    [name |-> {OneLetter, Al, LongName},
     email |-> {NoDotEmail, GoodEmail},
     phone |-> {ShortPhone, TenDigits},
     date |-> {Feb15},
     timeSlot |-> {Slot10}]

\* handleChange: the field takes the value, and its message, if one shows,
\* is blanked.
HandleChange ==
    /\ \E f \in FieldSet : \E value \in Typed[f] :
          /\ formData' = [formData EXCEPT ![f] = value]
          /\ errors' =
                 IF f \in DOMAIN errors.fields /\ errors.fields[f] # ""
                 THEN [errors EXCEPT !.fields[f] = ""]
                 ELSE errors
    /\ UNCHANGED <<bookingData, submission>>
    /\ UNCHANGED <<store, clock, nextOid, request, response, storeCall, before,
                   handlers>>
    /\ UNCHANGED <<arrays, fetched, bookingsProp, searchTerm, sortConfig,
                   filteredBookings, sortedBookings, adminSession, fetching>>

\* A variant that does not mark the form as loading.
SubmitFormUnmarked ==
    LET formErrors == ValidateBookingForm(formData)
    IN  /\ ~isLoading
        /\ nextOid + Len(posts) <= MaxDocs
        /\ IF DOMAIN formErrors # {}
           THEN /\ errors' = [fields |-> formErrors, submit |-> <<>>]
                /\ UNCHANGED <<isLoading, posts>>
           ELSE /\ posts' = Append(posts, formData)
                /\ UNCHANGED <<isLoading, errors>>
        /\ UNCHANGED <<formData, bookingData>>
        /\ UNCHANGED <<store, clock, nextOid, request, response, storeCall,
                       before, handlers>>
        /\ UNCHANGED <<arrays, fetched, bookingsProp, searchTerm, sortConfig,
                       filteredBookings, sortedBookings, adminSession, fetching>>

\* handleSubmit up to its await, on the submit event, which the browser
\* gives only while the submit button is not disabled (disabled={isLoading}):
\* the whole-form check, and when it finds nothing setIsLoading(true) and the
\* POST of formData.
SubmitForm ==
    LET formErrors == ValidateBookingForm(formData)
    IN  /\ ~isLoading
        /\ nextOid + Len(posts) <= MaxDocs
        /\ IF DOMAIN formErrors # {}
           THEN /\ errors' = [fields |-> formErrors, submit |-> <<>>]
                /\ UNCHANGED <<isLoading, posts>>
           ELSE /\ isLoading' = TRUE
                /\ posts' = Append(posts, formData)
                /\ UNCHANGED errors
        /\ UNCHANGED <<formData, bookingData>>
        /\ UNCHANGED <<store, clock, nextOid, request, response, storeCall,
                       before, handlers>>
        /\ UNCHANGED <<arrays, fetched, bookingsProp, searchTerm, sortConfig,
                       filteredBookings, sortedBookings, adminSession, fetching>>

\* A variant that empties the form whatever the answer.
SubmitAnsweredAlwaysResets ==
    /\ posts # <<>>
    /\ \/ \E dbOk \in BOOLEAN :
             LET outcome == PostBooking(Head(posts), dbOk)
             IN  /\ store' = outcome.store
                 /\ nextOid' = outcome.nextOid
                 /\ formData' = EmptyForm
                 /\ IF outcome.res.body.success
                    THEN /\ bookingData' = [shown |-> TRUE, data |-> Head(posts)]
                         /\ errors' = NoErrors
                    ELSE /\ errors' = [fields |-> NoFieldErrors,
                                       submit |-> outcome.res.body.message]
                         /\ UNCHANGED bookingData
       \/ /\ errors' = [fields |-> NoFieldErrors, submit |-> NoAnswer]
          /\ formData' = EmptyForm
          /\ UNCHANGED <<store, nextOid, bookingData>>
    /\ isLoading' = FALSE
    /\ posts' = Tail(posts)
    /\ UNCHANGED <<clock, request, response, storeCall, before, handlers>>
    /\ UNCHANGED <<arrays, fetched, bookingsProp, searchTerm, sortConfig,
                   filteredBookings, sortedBookings, adminSession, fetching>>

\* handleSubmit from its await on: the server handles the POST and the page
\* takes the answer, or no answer comes; the formData of the handler is the
\* one it posted.  finally: setIsLoading(false).
SubmitAnswered ==
    /\ posts # <<>>
    /\ \/ \E dbOk \in BOOLEAN :
             LET outcome == PostBooking(Head(posts), dbOk)
             IN  /\ store' = outcome.store
                 /\ nextOid' = outcome.nextOid
                 /\ IF outcome.res.body.success
                    THEN /\ bookingData' = [shown |-> TRUE, data |-> Head(posts)]
                         /\ formData' = EmptyForm
                         /\ errors' = NoErrors
                    ELSE /\ errors' = [fields |-> NoFieldErrors,
                                       submit |-> outcome.res.body.message]
                         /\ UNCHANGED <<formData, bookingData>>
       \/ /\ errors' = [fields |-> NoFieldErrors, submit |-> NoAnswer]
          /\ UNCHANGED <<store, nextOid, formData, bookingData>>
    /\ isLoading' = FALSE
    /\ posts' = Tail(posts)
    /\ UNCHANGED <<clock, request, response, storeCall, before, handlers>>
    /\ UNCHANGED <<arrays, fetched, bookingsProp, searchTerm, sortConfig,
                   filteredBookings, sortedBookings, adminSession, fetching>>

NextSubmit == HandleChange \/ SubmitForm \/ SubmitAnswered

\* The booking page: the visitor fills the form in, submits it, and goes on
\* typing while the POST is out.
SpecSubmit == Init /\ [][NextSubmit]_vars

\* --------------------------------------------------------- bookings table

\* The characters of the model, in the order of their UTF-16 code units.
CodeOrder ==
    <<" ", ",", "-", ".", "0", "1", "2", "3", "4", "5", "6", "7", "8", "9", "@",
      "A", "B", "F", "L",
      "a", "b", "c", "d", "e", "f", "g", "h", "i", "j", "l", "r", "u", "x", "y">>

CharCode(c) == CHOOSE i \in 1..Len(CodeOrder) : CodeOrder[i] = c

\* s < t of two JavaScript strings.
RECURSIVE TextLess(_, _)
TextLess(s, t) ==
    IF t = <<>> THEN FALSE
    ELSE IF s = <<>> THEN TRUE
    ELSE IF Head(s) = Head(t) THEN TextLess(Tail(s), Tail(t))
    ELSE CharCode(Head(s)) < CharCode(Head(t))

\* String.prototype.includes
Includes(s, sub) ==
    \E k \in 0..(Len(s) - Len(sub)) : SubSeq(s, k + 1, k + Len(sub)) = sub

Feb2026 == <<"F", "e", "b", " ", "2", "0", "2", "6">>
Feb2027 == <<"F", "e", "b", " ", "2", "0", "2", "7">>
Phone2026 == <<"2", "0", "2", "6", "2", "0", "2", "6", "2", "0">>

\* Bookings as GET /api/bookings returns them: names that differ in case
\* only, two of one createdAt, a phone of letters, a phone that holds "2026".
TableRecords ==
    {[_id |-> 1, name |-> <<"A", "l">>, email |-> <<"a", "@", "b", ".", "c">>,
      phone |-> TenDigits, date |-> Feb2026, timeSlot |-> Slot10, createdAt |-> 2],
     [_id |-> 2, name |-> <<"a", "l">>, email |-> <<"b", "@", "b", ".", "c">>,
      phone |-> TenLetters, date |-> Feb2027, timeSlot |-> Slot10, createdAt |-> 1],
     [_id |-> 3, name |-> <<"B", "a">>, email |-> <<"a", "@", "b", ".", "c">>,
      phone |-> Phone2026, date |-> Feb2027, timeSlot |-> Slot10, createdAt |-> 1],
     [_id |-> 4, name |-> <<"A", "L">>, email |-> <<"l", "@", "b", ".", "c">>,
      phone |-> TenDigits, date |-> Feb2026, timeSlot |-> Slot10, createdAt |-> 0]}

\* response.data.data of a fetch: bookings of different _id, newest first.
TableInputs ==
    {data \in UNION {[1..n -> TableRecords] : n \in 0..MaxRows} :
        \A i, j \in 1..Len(data) :
            i < j => /\ data[i]._id # data[j]._id
                     /\ data[i].createdAt >= data[j].createdAt}

\* What the admin types into the search box.
SearchTerms ==
    {<<>>, <<"2", "0", "2", "6">>, <<"A", "L">>, <<"f", "e", "b">>,
     <<"9", "8">>, <<"A", "B">>, <<"x">>}

\* sortOptions
SortOptions ==
    [field : {"createdAt", "name", "date"}, direction : {"asc", "desc"}]

\* A variant that looks for the lowercased term in the phone as well.
MatchesLowered(booking, term) ==
    LET lowerSearch == ToLowerCase(term)
    IN  \/ Includes(ToLowerCase(booking.name), lowerSearch)
        \/ Includes(ToLowerCase(booking.email), lowerSearch)
        \/ Includes(booking.phone, lowerSearch)
        \/ Includes(ToLowerCase(booking.date), lowerSearch)
        \/ Includes(ToLowerCase(booking.timeSlot), lowerSearch)

\* The predicate of bookings.filter in filteredBookings.
Matches(booking, term) ==
    LET lowerSearch == ToLowerCase(term)
    IN  \/ Includes(ToLowerCase(booking.name), lowerSearch)
        \/ Includes(ToLowerCase(booking.email), lowerSearch)
        \/ Includes(booking.phone, term)
        \/ Includes(ToLowerCase(booking.date), lowerSearch)
        \/ Includes(ToLowerCase(booking.timeSlot), lowerSearch)

\* The memo filteredBookings: the bookings array itself when there is no
\* search term, else the new array that filter() returns.
FilterMemo(heap, src, term) ==
    IF term = <<>>
    THEN [arrays |-> [heap EXCEPT ![FilterRef] = <<>>], ref |-> src]
    ELSE [arrays |-> [heap EXCEPT ![FilterRef] =
                          SelectSeq(heap[src], LAMBDA b : Matches(b, term))],
          ref |-> FilterRef]

\* A variant that has no answer 0: equal keys count as out of order.
CompareBookingsNoTie(a, b, config) ==
    LET greater == IF config.field = "createdAt"
                   THEN a.createdAt > b.createdAt
                   ELSE TextLess(ToLowerCase(b[config.field]), ToLowerCase(a[config.field]))
    IN  IF greater THEN (IF config.direction = "asc" THEN 1 ELSE -1)
        ELSE (IF config.direction = "asc" THEN -1 ELSE 1)

\* The comparator of sorted.sort: -1, 0 or 1.
CompareBookings(a, b, config) ==
    LET less == IF config.field = "createdAt"
                THEN a.createdAt < b.createdAt
                ELSE TextLess(ToLowerCase(a[config.field]), ToLowerCase(b[config.field]))
        greater == IF config.field = "createdAt"
                   THEN a.createdAt > b.createdAt
                   ELSE TextLess(ToLowerCase(b[config.field]), ToLowerCase(a[config.field]))
    IN  IF less THEN (IF config.direction = "asc" THEN -1 ELSE 1)
        ELSE IF greater THEN (IF config.direction = "asc" THEN 1 ELSE -1)
        ELSE 0

\* A variant of the insertion that puts an element before its equals.
RECURSIVE InsertBeforeEquals(_, _, _)
InsertBeforeEquals(x, sorted, config) ==
    IF sorted = <<>> THEN <<x>>
    ELSE IF CompareBookings(x, Head(sorted), config) <= 0 THEN <<x>> \o sorted
    ELSE <<Head(sorted)>> \o InsertBeforeEquals(x, Tail(sorted), config)

\* Array.prototype.sort is stable: an element goes after the elements the
\* comparator does not put behind it.
RECURSIVE Insert(_, _, _)
Insert(x, sorted, config) ==
    IF sorted = <<>> THEN <<x>>
    ELSE IF CompareBookings(x, Head(sorted), config) < 0 THEN <<x>> \o sorted
    ELSE <<Head(sorted)>> \o Insert(x, Tail(sorted), config)

RECURSIVE ArraySort(_, _)
ArraySort(array, config) ==
    IF array = <<>> THEN <<>>
    ELSE Insert(array[Len(array)], ArraySort(SubSeq(array, 1, Len(array) - 1), config), config)

\* A variant that sorts the filtered array where it is.
SortMemoInPlace(heap, src, config) ==
    [arrays |-> [heap EXCEPT ![src] = ArraySort(heap[src], config)], ref |-> src]

\* The memo sortedBookings: a copy of the filtered array, sorted in place.
SortMemo(heap, src, config) ==
    [arrays |-> [heap EXCEPT ![SortRef] = ArraySort(heap[src], config)],
     ref |-> SortRef]

\* A render of BookingsTable: the two memos, one after the other.
Render(heap, term, config) ==
    LET filtered == FilterMemo(heap, bookingsProp, term)
        sorted == SortMemo(filtered.arrays, filtered.ref, config)
    IN  /\ arrays' = sorted.arrays
        /\ filteredBookings' = filtered.ref
        /\ sortedBookings' = sorted.ref

\* fetchBookings: setBookings(response.data.data), and the render it causes;
\* a fetch that fails leaves the bookings as they are.
FetchBookings ==
    /\ \E data \in TableInputs :
          /\ fetched' = data
          /\ Render([arrays EXCEPT ![bookingsProp] = data], searchTerm, sortConfig)
    /\ UNCHANGED <<bookingsProp, searchTerm, sortConfig>>
    /\ UNCHANGED <<store, clock, nextOid, request, response, storeCall, before, handlers>>
    /\ UNCHANGED <<formData, errors, bookingData, submission, adminSession,
                   fetching>>

\* onChange of the search box: setSearchTerm, and the render it causes.
SetSearchTerm ==
    /\ \E term \in SearchTerms :
          /\ searchTerm' = term
          /\ Render(arrays, term, sortConfig)
    /\ UNCHANGED <<fetched, bookingsProp, sortConfig>>
    /\ UNCHANGED <<store, clock, nextOid, request, response, storeCall, before, handlers>>
    /\ UNCHANGED <<formData, errors, bookingData, submission, adminSession,
                   fetching>>

\* handleSortChange: setSortConfig, and the render it causes.
HandleSortChange ==
    /\ \E option \in SortOptions :
          /\ sortConfig' = option
          /\ Render(arrays, searchTerm, option)
    /\ UNCHANGED <<fetched, bookingsProp, searchTerm>>
    /\ UNCHANGED <<store, clock, nextOid, request, response, storeCall, before, handlers>>
    /\ UNCHANGED <<formData, errors, bookingData, submission, adminSession,
                   fetching>>

NextTable == FetchBookings \/ SetSearchTerm \/ HandleSortChange

\* The admin page: fetches, searches and sorts.
SpecTable == Init /\ [][NextTable]_vars

\* ------------------------------------------------------ appointment dates

\* The days of February 2026.
FebruaryDays == 28

\* The decimal digit of a number below ten.
DigitOf(n) == CodeOrder[n + 5]

\* String(day)
DayText(day) ==
    IF day < 10 THEN <<DigitOf(day)>>
    ELSE <<DigitOf(day \div 10), DigitOf(day % 10)>>

\* getFebruaryDates: `February ${day}, 2026`
FebruaryDate(day) ==
    <<"F", "e", "b", "r", "u", "a", "r", "y", " ">> \o DayText(day)
        \o <<",", " ", "2", "0", "2", "6">>

\* The value of the form's date input (type="date", min 2026-02-01, max
\* 2026-02-28): the day as yyyy-mm-dd.
DateInputValue(day) ==
    <<"2", "0", "2", "6", "-", "0", "2", "-">>
        \o <<DigitOf(day \div 10), DigitOf(day % 10)>>

\* The days the bookings of the admin's list are for.
BookedDays == {d \in {2, 10, 15} : d <= FebruaryDays}

\* Bookings that differ in their date only, in either form of it.
DatedRecords ==
    {[_id |-> day, name |-> <<"A", "l">>, email |-> <<"a", "@", "b", ".", "c">>,
      phone |-> TenDigits, date |-> text, timeSlot |-> Slot10, createdAt |-> 0] :
        <<day, text>> \in
            {<<d, FebruaryDate(d)>> : d \in BookedDays}
                \cup {<<d + FebruaryDays, DateInputValue(d)>> : d \in BookedDays}}

\* response.data.data of a fetch: bookings of different _id.
DatedInputs ==
    {data \in UNION {[1..n -> DatedRecords] : n \in 0..MaxRows} :
        \A i, j \in 1..Len(data) : i < j => data[i]._id # data[j]._id}

\* fetchBookings, the list holding such bookings.
FetchDated ==
    /\ \E data \in DatedInputs :
          /\ fetched' = data
          /\ Render([arrays EXCEPT ![bookingsProp] = data], searchTerm, sortConfig)
    /\ UNCHANGED <<bookingsProp, searchTerm, sortConfig>>
    /\ UNCHANGED <<store, clock, nextOid, request, response, storeCall, before,
                   handlers>>
    /\ UNCHANGED <<formData, errors, bookingData, submission, adminSession,
                   fetching>>

NextDates == FetchDated \/ HandleSortChange

\* The admin page with bookings for several days, sorted by each option.
SpecDates == Init /\ [][NextDates]_vars

\* --------------------------------------------------- handlers side by side

\* A body that passes every rule.
ValidBody ==
    [name |-> Al, email |-> GoodEmail, phone |-> TenDigits, date |-> Feb15,
     timeSlot |-> Slot10]

\* The same body with an _id and a createdAt of the caller's choosing added.
ForgedBody ==
    [name |-> Al, email |-> GoodEmail, phone |-> TenDigits, date |-> Feb15,
     timeSlot |-> Slot10, _id |-> MaxDocs + 2, createdAt |-> MaxClock + 1]

\* The bodies callers post while other requests are being handled.
CallerBodies ==
    {ValidBody, ForgedBody, [ValidBody EXCEPT !.phone = ShortPhone]}

\* The requests of callers: creates, and deletes of identifiers the service
\* hands out.
CallerArrivals ==
    {Request("create", body, NoId, clock) : body \in CallerBodies}
        \cup {Request("deleteOne", NoBody, id, clock) :
                 id \in {i \in IdParams : i.hex /\ i.oid <= MaxDocs}}

\* A variant that leaves createdAt to the store, which stamps the document
\* when it inserts it.
AppendStamped(newBooking) ==
    Append(store, [newBooking EXCEPT !.createdAt = clock])

\* insertOne of save(): the document goes to the end of the collection as
\* the handler built it.
AppendDocument(newBooking) == Append(store, newBooking)

\* Express hands a request to its route while other handlers wait on the
\* store.
Arrive(c) ==
    /\ handlers[c].pc = "idle"
    /\ \E r \in CallerArrivals :
          /\ r.op = "create" => nextOid <= MaxDocs
          /\ handlers' =
                 [handlers EXCEPT
                     ![c] = [Waiting EXCEPT !.op = r.op, !.body = r.body,
                                            !.id = r.id, !.pc = "received",
                                            !.existed =
                                                r.id.oid \in StoredIds]]
    /\ UNCHANGED <<store, clock, nextOid, request, response, storeCall, before,
                   client>>

\* router.post('/') up to its await: the required-fields check, and
\* new Booking({...}), which takes the _id and reads Date.now for createdAt.
Construct(c) ==
    /\ handlers[c].pc = "received"
    /\ handlers[c].op = "create"
    /\ IF \E f \in FieldSet : Falsy(handlers[c].body, f)
       THEN /\ handlers' =
                   [handlers EXCEPT
                       ![c].pc = "answered",
                       ![c].res =
                           Respond("create", 400,
                               [success |-> FALSE,
                                message |-> <<"All fields are required">>])]
            /\ UNCHANGED nextOid
       ELSE /\ handlers' =
                   [handlers EXCEPT
                       ![c].pc = "saving",
                       ![c].newBooking =
                           NewBooking(handlers[c].body, nextOid, clock)]
            /\ nextOid' = nextOid + 1
    /\ UNCHANGED <<store, clock, request, response, storeCall, before, client>>

\* router.post('/') from its await on: save() validates the document and
\* inserts it, and the handler answers.
Save(c) ==
    /\ handlers[c].pc = "saving"
    /\ LET newBooking == handlers[c].newBooking
           messages == ValidationMessages(newBooking)
       IN  IF messages # <<>>
           THEN /\ handlers' =
                       [handlers EXCEPT
                           ![c].pc = "answered",
                           ![c].res =
                               Respond("create", 400,
                                   [success |-> FALSE, message |-> messages])]
                /\ UNCHANGED store
           ELSE \E dbOk \in BOOLEAN :
                   IF dbOk
                   THEN /\ store' = AppendDocument(newBooking)
                        /\ handlers' =
                               [handlers EXCEPT
                                   ![c].pc = "answered",
                                   ![c].storeCall = "ok",
                                   ![c].res =
                                       Respond("create", 201,
                                           [success |-> TRUE,
                                            message |->
                                                <<"Booking created successfully">>,
                                            data |-> newBooking])]
                   ELSE /\ handlers' =
                               [handlers EXCEPT
                                   ![c].pc = "answered",
                                   ![c].storeCall = "failed",
                                   ![c].res = Respond("create", 500, ServerError)]
                        /\ UNCHANGED store
    /\ UNCHANGED <<clock, nextOid, request, response, storeCall, before, client>>

\* router.delete('/:id'): findByIdAndDelete is one operation of the store.
Delete(c) ==
    /\ handlers[c].pc = "received"
    /\ handlers[c].op = "deleteOne"
    /\ \E dbOk \in BOOLEAN :
          LET outcome == DeleteBookingById(handlers[c].id, dbOk)
          IN  /\ store' = outcome.store
              /\ handlers' =
                     [handlers EXCEPT
                         ![c].pc = "answered",
                         ![c].storeCall = outcome.storeCall,
                         ![c].res = outcome.res]
    /\ UNCHANGED <<clock, nextOid, request, response, storeCall, before, client>>

\* The response is out; the caller may send its next request.
Leave(c) ==
    /\ handlers[c].pc = "answered"
    /\ handlers' = [handlers EXCEPT ![c] = Waiting]
    /\ UNCHANGED <<store, clock, nextOid, request, response, storeCall, before,
                   client>>

NextCallers ==
    \/ Tick
    \/ \E c \in Callers : Arrive(c)
    \/ \E c \in Callers : Construct(c)
    \/ \E c \in Callers : Save(c)
    \/ \E c \in Callers : Delete(c)
    \/ \E c \in Callers : Leave(c)

\* The service with the requests of several callers in hand at a time.
SpecCallers == Init /\ [][NextCallers]_vars

\* -------------------------------------------------------------- admin login

ADMIN_USERNAME == "admin"
ADMIN_PASSWORD == "admin123"

\* What is typed into the two inputs of AdminLogin.
Usernames == {"", "admin", "Admin"}
Passwords == {"", "admin123", "admin"}

\* sessionStorage.getItem(key)
GetItem(key) ==
    IF key \in DOMAIN sessionStorage THEN sessionStorage[key] ELSE "null"

\* sessionStorage.setItem(key, value)
SetItem(key, value) ==
    [k \in DOMAIN sessionStorage \cup {key} |->
        IF k = key THEN value ELSE sessionStorage[k]]

\* sessionStorage.removeItem(key)
RemoveItem(key) == [k \in DOMAIN sessionStorage \ {key} |-> sessionStorage[k]]

\* A variant that compares the username only.
CredentialsMatchUsernameOnly(username, password) == username = ADMIN_USERNAME

\* username === ADMIN_USERNAME && password === ADMIN_PASSWORD
CredentialsMatch(username, password) ==
    username = ADMIN_USERNAME /\ password = ADMIN_PASSWORD

\* AdminPage renders AdminLogin.
LoginShown == route = "/admin" /\ ~isLoggedIn

\* AdminPage renders AdminDashboard.
DashboardShown == route = "/admin" /\ isLoggedIn

\* The callbacks still waiting, their component gone: what they set in it
\* is lost.
Orphaned(callbacks) ==
    [i \in 1..Len(callbacks) |-> [callbacks[i] EXCEPT !.live = FALSE]]

\* onChange of the username and password inputs.
TypeCredentials ==
    /\ LoginShown
    /\ \/ \E u \in Usernames :
             adminLogin' = [adminLogin EXCEPT !.username = u, !.error = ""]
       \/ \E w \in Passwords :
             adminLogin' = [adminLogin EXCEPT !.password = w, !.error = ""]
    /\ UNCHANGED <<sessionStorage, isLoggedIn, timeouts, route>>
    /\ UNCHANGED <<store, clock, nextOid, request, response, storeCall, before,
                   handlers>>
    /\ UNCHANGED <<formData, errors, bookingData, arrays, fetched, bookingsProp,
                   searchTerm, sortConfig, filteredBookings, sortedBookings,
                   submission, fetching>>

\* handleSubmit of AdminLogin, on the submit event, which the browser gives
\* only while the button is not disabled (isLoading || !username ||
\* !password): the callback with the username and password of this render
\* goes to setTimeout.
SubmitLogin ==
    /\ LoginShown
    /\ ~adminLogin.isLoading
    /\ adminLogin.username # ""
    /\ adminLogin.password # ""
    /\ Len(timeouts) < MaxTimeouts
    /\ adminLogin' = [adminLogin EXCEPT !.isLoading = TRUE, !.error = ""]
    /\ timeouts' =
           Append(timeouts,
               [username |-> adminLogin.username,
                password |-> adminLogin.password, live |-> TRUE])
    /\ UNCHANGED <<sessionStorage, isLoggedIn, route>>
    /\ UNCHANGED <<store, clock, nextOid, request, response, storeCall, before,
                   handlers>>
    /\ UNCHANGED <<formData, errors, bookingData, arrays, fetched, bookingsProp,
                   searchTerm, sortConfig, filteredBookings, sortedBookings,
                   submission, fetching>>

\* The callback of setTimeout runs, the oldest first: on a match setItem and
\* onLogin (handleLogin: setIsLoggedIn(true), after which AdminLogin is gone),
\* otherwise setError; then setIsLoading(false).
TimeoutRuns ==
    /\ timeouts # <<>>
    /\ LET callback == Head(timeouts)
       IN  IF CredentialsMatch(callback.username, callback.password)
           THEN /\ sessionStorage' = SetItem("isAdminLoggedIn", "true")
                /\ IF callback.live
                   THEN /\ isLoggedIn' = TRUE
                        /\ adminLogin' = LoginMounted
                        /\ timeouts' = Orphaned(Tail(timeouts))
                   ELSE /\ timeouts' = Tail(timeouts)
                        /\ UNCHANGED <<isLoggedIn, adminLogin>>
           ELSE /\ adminLogin' =
                       IF callback.live
                       THEN [adminLogin EXCEPT
                                !.error = "Invalid username or password",
                                !.isLoading = FALSE]
                       ELSE adminLogin
                /\ timeouts' = Tail(timeouts)
                /\ UNCHANGED <<sessionStorage, isLoggedIn>>
    /\ UNCHANGED route
    /\ UNCHANGED <<store, clock, nextOid, request, response, storeCall, before,
                   handlers>>
    /\ UNCHANGED <<formData, errors, bookingData, arrays, fetched, bookingsProp,
                   searchTerm, sortConfig, filteredBookings, sortedBookings,
                   submission, fetching>>

\* handleLogout of the dashboard and the onLogout it calls.
HandleLogout ==
    /\ DashboardShown
    /\ sessionStorage' = RemoveItem("isAdminLoggedIn")
    /\ isLoggedIn' = FALSE
    /\ adminLogin' = LoginMounted
    /\ UNCHANGED <<timeouts, route>>
    /\ UNCHANGED <<store, clock, nextOid, request, response, storeCall, before,
                   handlers>>
    /\ UNCHANGED <<formData, errors, bookingData, arrays, fetched, bookingsProp,
                   searchTerm, sortConfig, filteredBookings, sortedBookings,
                   submission, fetching>>

\* The router goes to the other path.  Leaving /admin unmounts AdminPage;
\* coming to it mounts AdminPage, whose effect reads the flag into
\* isLoggedIn.
Navigate ==
    /\ IF route = "/admin"
       THEN /\ route' = "/"
            /\ isLoggedIn' = FALSE
            /\ timeouts' = Orphaned(timeouts)
       ELSE /\ route' = "/admin"
            /\ isLoggedIn' = (GetItem("isAdminLoggedIn") = "true")
            /\ UNCHANGED timeouts
    /\ adminLogin' = LoginMounted
    /\ UNCHANGED sessionStorage
    /\ UNCHANGED <<store, clock, nextOid, request, response, storeCall, before,
                   handlers>>
    /\ UNCHANGED <<formData, errors, bookingData, arrays, fetched, bookingsProp,
                   searchTerm, sortConfig, filteredBookings, sortedBookings,
                   submission, fetching>>

\* The tab reloads: the timers are gone, sessionStorage stays, and the page
\* of the path mounts anew.
Reload ==
    /\ timeouts' = <<>>
    /\ isLoggedIn' = (route = "/admin" /\ GetItem("isAdminLoggedIn") = "true")
    /\ adminLogin' = LoginMounted
    /\ UNCHANGED <<sessionStorage, route>>
    /\ UNCHANGED <<store, clock, nextOid, request, response, storeCall, before,
                   handlers>>
    /\ UNCHANGED <<formData, errors, bookingData, arrays, fetched, bookingsProp,
                   searchTerm, sortConfig, filteredBookings, sortedBookings,
                   submission, fetching>>

NextAdmin ==
    TypeCredentials \/ SubmitLogin \/ TimeoutRuns \/ HandleLogout \/ Navigate
        \/ Reload

\* The admin page in one tab: logins, logouts, and visits to the other page.
SpecAdmin == Init /\ [][NextAdmin]_vars

\* ---------------------------------------------------------- admin dashboard

LoadFailed == "Failed to load bookings. Please try again."

\* AdminDashboard as it mounts: isLoading true, no error, and the GET of its
\* mount effect out.
DashboardLoading ==
    /\ arrays = [r \in {FetchedRef, FilterRef, SortRef} |-> <<>>]
    /\ fetched = <<>>
    /\ bookingsProp = FetchedRef
    /\ searchTerm = <<>>
    /\ sortConfig = NewestFirstConfig
    /\ filteredBookings = FetchedRef
    /\ sortedBookings = SortRef
    /\ dashboard = [isLoading |-> TRUE, error |-> ""]
    /\ gets = 1
    /\ got = 0

\* The tab after a login: the flag set and AdminPage showing the dashboard.
AdminLoggedIn ==
    /\ sessionStorage = [isAdminLoggedIn |-> "true"]
    /\ isLoggedIn = TRUE
    /\ adminLogin = LoginMounted
    /\ timeouts = <<>>
    /\ route = "/admin"

InitDashboard == ServerStarted /\ FormMounted /\ DashboardLoading /\ AdminLoggedIn

\* fetchBookings up to its await: setIsLoading(true) and the GET.
StartFetch ==
    /\ gets < MaxGets
    /\ dashboard' = [dashboard EXCEPT !.isLoading = TRUE]
    /\ gets' = gets + 1
    /\ UNCHANGED <<got, arrays, fetched, bookingsProp, searchTerm, sortConfig,
                   filteredBookings, sortedBookings>>
    /\ UNCHANGED <<store, clock, nextOid, request, response, storeCall, before,
                   handlers>>
    /\ UNCHANGED <<formData, errors, bookingData, submission, adminSession>>

\* The Refresh button, disabled while isLoading.
Refresh == ~dashboard.isLoading /\ StartFetch

\* The Try Again button, which shows while there is an error.
TryAgain == dashboard.error # "" /\ StartFetch

\* fetchBookings from its await on, the answer being a list:
\* setBookings(response.data.data) and the render it causes; finally
\* setIsLoading(false).
FetchSucceeds ==
    /\ gets > 0
    /\ \E data \in TableInputs :
          /\ fetched' = data
          /\ Render([arrays EXCEPT ![bookingsProp] = data], searchTerm, sortConfig)
    /\ dashboard' = [dashboard EXCEPT !.isLoading = FALSE]
    /\ gets' = gets - 1
    /\ got' = 200
    /\ UNCHANGED <<bookingsProp, searchTerm, sortConfig>>
    /\ UNCHANGED <<store, clock, nextOid, request, response, storeCall, before,
                   handlers>>
    /\ UNCHANGED <<formData, errors, bookingData, submission, adminSession>>

\* fetchBookings from its await on, the GET rejected (the 500 of the route,
\* or no answer): setError; finally setIsLoading(false).
FetchFails ==
    /\ gets > 0
    /\ dashboard' = [isLoading |-> FALSE, error |-> LoadFailed]
    /\ gets' = gets - 1
    /\ got' = 500
    /\ UNCHANGED <<arrays, fetched, bookingsProp, searchTerm, sortConfig,
                   filteredBookings, sortedBookings>>
    /\ UNCHANGED <<store, clock, nextOid, request, response, storeCall, before,
                   handlers>>
    /\ UNCHANGED <<formData, errors, bookingData, submission, adminSession>>

NextDashboard == Refresh \/ TryAgain \/ FetchSucceeds \/ FetchFails

\* The dashboard: its first fetch, refreshes and retries.
SpecDashboard == InitDashboard /\ [][NextDashboard]_vars

\* ------------------------------------------------------------ vocabulary

Range(s) == {s[i] : i \in 1..Len(s)}

\* The records of the collection.
Stored == Range(store)

IdsOf(s) == {s[i]._id : i \in 1..Len(s)}

Reverse(s) == [i \in 1..Len(s) |-> s[Len(s) + 1 - i]]

\* The handler of op has sent its response.
Answered(op) == request.op = op /\ response.op = op

\* The message of the schema for one field of a body, <<>> when it passes.
SchemaError(req, f) == PathError(f, ApplySetters(f, FieldText(req, f)))

\* The fields of a body that fail validation.
FailingFields(req) == {f \in FieldSet : SchemaError(req, f) # <<>>}

AllFieldsRequired == <<"All fields are required">>

\* The form of the booking page holding the texts of a body.
FormOf(req) == [f \in FieldSet |-> FieldText(req, f)]

\* -------------------------------------------------------------------- C1

\* The field rules of the data model, on one stored record.
SatisfiesFieldRules(d) ==
    /\ Len(Trim(d.name)) >= NameMinLength
    /\ Len(Trim(d.name)) <= NameMaxLength
    /\ MatchesEmailPattern(d.email)
    /\ Len(DigitsOnly(d.phone)) = PhoneDigits
    /\ d.date # <<>>
    /\ d.timeSlot # <<>>

\* C1: after any sequence of Create, DeleteOne and DeleteAll requests every
\* stored record satisfies every field rule of the data model: trimmed name of
\* 2 to 100 characters, email of the local@domain.tld pattern, phone of exactly
\* 10 digits once the non-digits are stripped, date and timeSlot non-empty.
C1_StoredRecordsSatisfyFieldRules == \A d \in Stored : SatisfiesFieldRules(d)

\* -------------------------------------------------------------------- C2

\* The message the service has for a failing field: the schema's, or the one
\* of the required-fields check when the field is absent or empty.
MessageOf(req, f) ==
    IF Falsy(req, f) THEN AllFieldsRequired[1] ELSE SchemaError(req, f)[1]

\* C2 as claimed: a Create with one or more failing fields is answered 400,
\* success=false, with a message that enumerates the message of every failing
\* field, and adds no record.
C2_EveryFailingFieldEnumerated ==
    (Answered("create") /\ FailingFields(request.body) # {}) =>
        /\ response.status = 400
        /\ response.body.success = FALSE
        /\ \A f \in FailingFields(request.body) :
               MessageOf(request.body, f) \in Range(response.body.message)
        /\ store = before

\* C2 amended: a Create with one or more fields the service's validation
\* rejects (absent, empty, or failing its schema rule) is answered 400,
\* success=false and adds no record; its message holds exactly the messages of
\* the failing fields when all five fields are present and non-empty, and is
\* the single 'All fields are required' when a field is absent or empty.
C2_FailingCreateRejected ==
    (Answered("create") /\ FailingFields(request.body) # {}) =>
        /\ response.status = 400
        /\ response.body.success = FALSE
        /\ store = before
        /\ IF \E f \in FieldSet : Falsy(request.body, f)
           THEN response.body.message = AllFieldsRequired
           ELSE /\ Range(response.body.message) =
                       {SchemaError(request.body, f)[1] :
                            f \in FailingFields(request.body)}
                /\ Len(response.body.message) =
                       Cardinality(FailingFields(request.body))

\* A Create with two failing fields, all five present, was rejected while the
\* collection held a record.
C2_Witness ==
    /\ Answered("create")
    /\ Cardinality(FailingFields(request.body)) >= 2
    /\ \A f \in FieldSet : ~Falsy(request.body, f)
    /\ response.status = 400
    /\ before # <<>>

\* -------------------------------------------------------------------- C3

\* C3: when all five fields of a Create pass validation and the store is
\* available, exactly one record is added, with an identifier no other record
\* holds and a createdAt no earlier than the request time, and the response
\* (201, success=true) carries that stored record with its identifier and
\* createdAt.
C3_ValidCreateStoresOneRecord ==
    (Answered("create") /\ FailingFields(request.body) = {} /\ storeCall # "failed") =>
        /\ response.status = 201
        /\ response.body.success = TRUE
        /\ Len(store) = Len(before) + 1
        /\ SubSeq(store, 1, Len(before)) = before
        /\ LET d == store[Len(store)]
           IN  /\ d._id \notin IdsOf(before)
               /\ d.createdAt >= request.at
               /\ \A f \in FieldSet : d[f] = ApplySetters(f, request.body[f])
               /\ response.body.data = d

\* A valid Create was stored next to an earlier record, the clock having moved
\* between its arrival and its handling.
C3_Witness ==
    /\ Answered("create")
    /\ response.status = 201
    /\ before # <<>>
    /\ response.body.data.createdAt > request.at

\* -------------------------------------------------------------------- C4

\* data holds every record of the collection exactly once.
IsListingOf(data, s) ==
    /\ Len(data) = Len(s)
    /\ Range(data) = Range(s)
    /\ \A i, j \in 1..Len(data) : i # j => data[i]._id # data[j]._id

NewestFirst(data) ==
    \A i, j \in 1..Len(data) : i < j => data[i].createdAt >= data[j].createdAt

DistinctCreatedAt(s) ==
    \A i, j \in 1..Len(s) : i # j => s[i].createdAt # s[j].createdAt

\* C4 as claimed: List returns exactly the records of the store, createdAt
\* descending, and so the records in reverse creation order.
C4_ListInReverseCreationOrder ==
    (Answered("list") /\ response.status = 200) =>
        /\ IsListingOf(response.body.data, store)
        /\ NewestFirst(response.body.data)
        /\ response.body.data = Reverse(store)

\* C4 amended: List returns exactly the records of the store (none missing,
\* none extra, none twice) with createdAt descending; for records created one
\* request after another that is the reverse of the creation order when no
\* two of them share a createdAt.
C4_ListNewestFirst ==
    (Answered("list") /\ response.status = 200) =>
        /\ IsListingOf(response.body.data, store)
        /\ NewestFirst(response.body.data)
        /\ response.body.count = Len(store)
        /\ DistinctCreatedAt(store) => response.body.data = Reverse(store)

\* Three records created at three different times were listed.
C4_Witness ==
    /\ Answered("list")
    /\ response.status = 200
    /\ Len(store) = 3
    /\ DistinctCreatedAt(store)

\* -------------------------------------------------------------------- C5

MatchesNoRecord(id, s) == ~id.hex \/ id.oid \notin IdsOf(s)

\* C5: for every identifier that matches no stored record DeleteOne answers
\* 404 'Booking not found', never the generic 500, and the store is unchanged.
C5_UnknownIdIsNotFound ==
    (/\ Answered("deleteOne")
     /\ MatchesNoRecord(request.id, before)
     /\ storeCall # "failed") =>
        /\ response.status = 404
        /\ response.body.message = <<"Booking not found">>
        /\ store = before

\* -------------------------------------------------------------------- C6

\* C6: DeleteOne with the identifier of a stored record removes exactly that
\* record and leaves every other record, and all of its fields, as it was.
C6_DeleteOneRemovesThatRecord ==
    (/\ Answered("deleteOne")
     /\ ~MatchesNoRecord(request.id, before)
     /\ storeCall = "ok") =>
        /\ response.status = 200
        /\ Len(store) = Len(before) - 1
        /\ store = SelectSeq(before, LAMBDA d : d._id # request.id.oid)

\* One of two stored records was deleted.
C6_Witness ==
    /\ Answered("deleteOne")
    /\ response.status = 200
    /\ Len(before) >= 2
    /\ request.id.oid \in IdsOf(before)

\* -------------------------------------------------------------------- C7

\* C7: DeleteAll leaves the store empty and reports the number of records the
\* store held when it ran; a List of the store it left returns the empty list.
C7_DeleteAllEmptiesStore ==
    /\ (Answered("deleteAll") /\ storeCall = "ok") =>
           /\ response.status = 200
           /\ store = <<>>
           /\ response.body.deletedCount = Len(before)
    /\ (Answered("list") /\ response.status = 200 /\ store = <<>>) =>
           /\ response.body.data = <<>>
           /\ response.body.count = 0

\* DeleteAll removed two records.
C7_Witness ==
    /\ Answered("deleteAll")
    /\ response.status = 200
    /\ Len(before) >= 2
    /\ store = <<>>

\* -------------------------------------------------------------------- C8

\* The request fails because of what the caller sent.
InputFailure ==
    \/ Answered("create") /\ FailingFields(request.body) # {}
    \/ Answered("deleteOne") /\ MatchesNoRecord(request.id, before)

\* C8: a failure caused by the caller's input is answered 400 or 404 and never
\* with the response of a store failure; a store failure is answered 500,
\* never 400 or 404, with the fixed generic message.
C8_InputAndStoreFailuresApart ==
    /\ (InputFailure /\ storeCall # "failed") => response.status \in {400, 404}
    /\ (response.op # "none" /\ storeCall = "failed") =>
           /\ response.status = 500
           /\ response.body = ServerError

\* -------------------------------------------------------------------- C9

SuccessStatus(op) == IF op = "create" THEN 201 ELSE 200

\* C9: every response of create, list, delete-one and delete-all carries a
\* boolean success flag with a data payload or a message, and the flag agrees
\* with the status: true exactly with 201 (create) or 200 (list, delete),
\* false exactly with 400, 404 or 500.
C9_EnvelopeAgreesWithStatus ==
    response.op # "none" =>
        /\ response.body.success \in BOOLEAN
        /\ "data" \in DOMAIN response.body \/ "message" \in DOMAIN response.body
        /\ response.status \in {200, 201, 400, 404, 500}
        /\ response.body.success = TRUE <=> response.status = SuccessStatus(response.op)
        /\ response.body.success = FALSE <=> response.status \in {400, 404, 500}

\* A store failure was answered.
C9_Witness ==
    /\ response.op # "none"
    /\ storeCall = "failed"
    /\ response.status = 500

\* ------------------------------------------------------------------- C10

\* The body lacks email, and its other four fields pass the rules of the
\* service and of the booking form.
OnlyEmailMissing(req) ==
    /\ "email" \notin DOMAIN req
    /\ \A f \in FieldSet \ {"email"} :
          /\ ~Falsy(req, f)
          /\ SchemaError(req, f) = <<>>
          /\ FormFieldError(f, req[f]) = <<>>

EmailMessages == {"Email is required", "Please provide a valid email address"}

\* C10 as claimed: a Create whose email is missing and whose other fields are
\* valid gets a validation failure that names the field email and no other,
\* and nothing is persisted.
C10_MissingEmailNamed ==
    (Answered("create") /\ OnlyEmailMissing(request.body)) =>
        /\ response.status = 400
        /\ response.body.message # <<>>
        /\ Range(response.body.message) \subseteq EmailMessages
        /\ store = before

\* C10 amended: the service answers such a Create 400 with the single message
\* 'All fields are required', which names no field, and persists nothing; it
\* is the whole-form check of the booking form that maps such a form to
\* exactly the key email.
C10_MissingEmailRejected ==
    (Answered("create") /\ OnlyEmailMissing(request.body)) =>
        /\ response.status = 400
        /\ response.body.success = FALSE
        /\ response.body.message = AllFieldsRequired
        /\ store = before
        /\ storeCall = "none"
        /\ ValidateBookingForm(FormOf(request.body)) = [f \in {"email"} |-> "Email is required"]

\* Such a Create was rejected while the collection held a record.
C10_Witness ==
    /\ Answered("create")
    /\ OnlyEmailMissing(request.body)
    /\ response.status = 400
    /\ before # <<>>

\* ------------------------------------------------------------------- C11

DigitCount(s) == Cardinality({i \in 1..Len(s) : s[i] \in Digits})

\* The phone rule of the booking form passes this text.
ClientPhonePasses(v) == FormFieldError("phone", v) = <<>>

\* The phone rule of the schema passes this text.
ServicePhonePasses(v) == SchemaError([phone |-> v], "phone") = <<>>

\* C11: for every phone input the phone rule passes if and only if removing
\* the non-digit characters leaves exactly 10 digits, whatever formatting
\* characters are present, both for the rule applied on the client and for the
\* rule the service applies before persisting.
C11_PhoneRuleIsTenDigits ==
    /\ ClientPhonePasses(formData.phone) <=> DigitCount(formData.phone) = 10
    /\ ServicePhonePasses(formData.phone) <=> DigitCount(formData.phone) = 10

\* ------------------------------------------------------------------- C12

NonSpaceRun(s, lo, hi) == lo <= hi /\ \A k \in lo..hi : ~IsSpace(s[k])

\* The form the claim gives: one or more non-space non-@ characters, "@", one
\* or more non-space non-@ characters, ".", one or more non-space characters.
HasClaimedEmailForm(s) ==
    \E i \in 1..Len(s) : \E j \in 1..Len(s) :
        /\ i < j
        /\ s[i] = "@"
        /\ s[j] = "."
        /\ IsLocalRun(s, 1, i - 1)
        /\ IsLocalRun(s, i + 1, j - 1)
        /\ NonSpaceRun(s, j + 1, Len(s))

\* The text has no "@", or no "." after its first "@".
LacksAtOrDot(s) ==
    \A i \in 1..Len(s) : s[i] = "@" => \A j \in (i + 1)..Len(s) : s[j] # "."

\* The email rule of the booking form fails this text.
ClientEmailFails(v) == FormFieldError("email", v) # <<>>

\* C12: for every email input the email rule fails exactly when the value,
\* trimmed of surrounding white space, does not have the claimed form; in
\* particular every input without an "@", or without a "." after the "@",
\* fails.
C12_EmailRuleOnTrimmedValue ==
    /\ ClientEmailFails(formData.email) <=> ~HasClaimedEmailForm(Trim(formData.email))
    /\ LacksAtOrDot(formData.email) => ClientEmailFails(formData.email)

\* The pattern of the code, said without the regular expression: no white
\* space, exactly one "@", which is not the first character, and after it a
\* "." that is neither next to the "@" nor the last character.
IsAddress(s) ==
    /\ \A k \in 1..Len(s) : ~IsSpace(s[k])
    /\ Cardinality({k \in 1..Len(s) : s[k] = "@"}) = 1
    /\ \E i \in 2..Len(s) :
          /\ s[i] = "@"
          /\ \E j \in (i + 2)..(Len(s) - 1) : s[j] = "."

\* C12 amended: the email rule of the booking form fails exactly when the
\* value as typed, surrounding white space included, is not of the form: one
\* or more non-space non-@ characters, "@", one or more non-space non-@
\* characters, ".", one or more non-space non-@ characters; in particular
\* every input without an "@", or without a "." after the "@", fails.  A
\* form whose email fails is not posted.
C12_EmailRuleOnTypedValue ==
    /\ ClientEmailFails(formData.email) <=> ~IsAddress(formData.email)
    /\ LacksAtOrDot(formData.email) => ClientEmailFails(formData.email)
    /\ "email" \in DOMAIN errors.fields =>
           /\ ClientEmailFails(formData.email)
           /\ errors.submit = <<>>
    /\ bookingData.shown => ~ClientEmailFails(bookingData.data.email)

\* An address with a space after it was submitted and refused.
C12_Witness ==
    /\ "email" \in DOMAIN errors.fields
    /\ errors.fields["email"] = "Please enter a valid email address"
    /\ formData.email # Trim(formData.email)
    /\ HasClaimedEmailForm(Trim(formData.email))

\* ------------------------------------------------------------------- C13

\* The rule of each field of the booking form, on that field's text alone:
\* name of 2 or more characters once trimmed, email an address, phone of
\* exactly 10 digits, date and timeSlot not blank.
FailsItsRule(f, v) ==
    CASE f = "name" -> Len(Trim(v)) < NameMinLength
      [] f = "email" -> ~IsAddress(v)
      [] f = "phone" -> DigitCount(v) # PhoneDigits
      [] OTHER -> Trim(v) = <<>>

FormMessages ==
    [name |-> {"Name is required", "Name must be at least 2 characters"},
     email |-> {"Email is required", "Please enter a valid email address"},
     phone |-> {"Phone number is required", "Please enter exactly 10 digits"},
     date |-> {"Please select a date"},
     timeSlot |-> {"Please select a time slot"}]

\* The form with every field but f emptied.
OnlyField(form, f) == [EmptyForm EXCEPT ![f] = form[f]]

\* C13: for every form the whole-form check returns a mapping whose keys are
\* exactly the fields among name, email, phone, date, timeSlot that fail their
\* rule, each field judged independently of the others, with one message per
\* failing field; it is empty if and only if every field passes; and the check
\* leaves the form it was given as it was.
C13_WholeFormCheck ==
    LET result == ValidateBookingForm(formData)
    IN  /\ DOMAIN result = {f \in FieldSet : FailsItsRule(f, formData[f])}
        /\ \A f \in DOMAIN result : result[f] \in FormMessages[f]
        /\ \A f \in FieldSet :
               f \in DOMAIN result <=>
                   f \in DOMAIN ValidateBookingForm(OnlyField(formData, f))
        /\ result = NoFieldErrors <=> \A f \in FieldSet : ~FailsItsRule(f, formData[f])
        /\ errors.fields # NoFieldErrors =>
               /\ errors.fields = result
               /\ formData \in FormInputs

\* A form with two failing fields and a passing one was checked on submit.
C13_Witness ==
    /\ Cardinality(DOMAIN errors.fields) >= 2
    /\ "name" \notin DOMAIN errors.fields
    /\ "timeSlot" \in DOMAIN errors.fields

\* ------------------------------------------------------------------- C14

\* POST /api/bookings stores this tuple of field values when the store is up.
ServiceAccepts(form) == PostBooking(form, TRUE).res.status = 201

\* C14: the service applies the same validator as the client: for every tuple
\* of field values, Create accepts it (absent a store failure) if and only if
\* the whole-form check of the client returns an empty mapping for it.
C14_ServiceAppliesClientValidator ==
    ServiceAccepts(formData) <=> ValidateBookingForm(formData) = NoFieldErrors

\* ------------------------------------------------------------------- C15

\* The data row the sheet holds at place i for the record d, up to the
\* formatted creation time.
IsRowOf(row, i, d) ==
    /\ Len(row) = Len(HeaderRow)
    /\ row[1] = i
    /\ row[2] = d.name
    /\ row[3] = d.email
    /\ row[4] = d.phone
    /\ row[5] = d.date
    /\ row[6] = d.timeSlot

\* The sheet is the header row and then the rows of these records, in order.
IsSheetOf(sheet, records) ==
    /\ Len(sheet) = 1 + Len(records)
    /\ sheet[1] = HeaderRow
    /\ \A i \in 1..Len(records) : IsRowOf(sheet[i + 1], i, records[i])

\* The orders in which List may return the collection.
Listings(s) ==
    {[i \in 1..Len(s) |-> s[p[i]]] :
        p \in {q \in [1..Len(s) -> 1..Len(s)] :
                 /\ \A i, j \in 1..Len(s) : i # j => q[i] # q[j]
                 /\ \A i, j \in 1..Len(s) :
                        i < j => s[q[i]].createdAt >= s[q[j]].createdAt}}

\* C15 as claimed: for every store content, the empty store included, Export
\* succeeds with a sheet of one header row and one data row per stored
\* record, in the order List returns, row i numbered i and carrying the
\* record's name, email, phone, date and timeSlot.
C15_SheetInTheOrderOfList ==
    (Answered("export") /\ storeCall # "failed") =>
        /\ response.status = 200
        /\ \A listed \in Listings(store) : IsSheetOf(response.body.sheet, listed)

\* C15 amended: Export succeeds for every store content with one header row
\* and one data row per stored record, createdAt descending, row i numbered i
\* and carrying that record's fields; that is the order List returns when no
\* two records share a createdAt; an empty store gives the header row alone.
C15_SheetNewestFirst ==
    (Answered("export") /\ storeCall # "failed") =>
        /\ response.status = 200
        /\ store = before
        /\ \E listed \in Listings(store) : IsSheetOf(response.body.sheet, listed)
        /\ DistinctCreatedAt(store) =>
               \A listed \in Listings(store) : IsSheetOf(response.body.sheet, listed)
        /\ store = <<>> => response.body.sheet = <<HeaderRow>>

\* Three records created at two different times were exported.
C15_Witness ==
    /\ Answered("export")
    /\ response.status = 200
    /\ Len(store) = 3
    /\ ~DistinctCreatedAt(store)
    /\ store[1].createdAt # store[3].createdAt

\* ------------------------------------------------------------------- C16

IsSubstring(sub, s) ==
    sub = <<>> \/ \E i \in 1..Len(s) : \E j \in i..Len(s) : SubSeq(s, i, j) = sub

\* The lowercased term is in the lowercased name, email, date or timeSlot, or
\* the term as typed is in the phone.
TermFound(d, term) ==
    \/ \E f \in {"name", "email", "date", "timeSlot"} :
           IsSubstring(ToLowerCase(term), ToLowerCase(d[f]))
    \/ IsSubstring(term, d.phone)

Year2026 == <<"2", "0", "2", "6">>

\* C16: for every record list and search term the filtered list holds exactly
\* the records in which the term is found (lowercased in the lowercased name,
\* email, date or timeSlot, or as typed in the phone), in their original
\* relative order; an empty term keeps every record; a search for "2026"
\* returns exactly the records whose date contains it when no other field
\* contains it.
C16_FilterKeepsMatchingRecords ==
    LET given == arrays[bookingsProp]
        kept == arrays[filteredBookings]
    IN  /\ kept = SelectSeq(given, LAMBDA d : TermFound(d, searchTerm))
        /\ searchTerm = <<>> => kept = given
        /\ (/\ searchTerm = Year2026
            /\ \A d \in Range(given) :
                   \A f \in {"name", "email", "phone", "timeSlot"} :
                       ~IsSubstring(Year2026, d[f])) =>
               kept = SelectSeq(given, LAMBDA d : IsSubstring(Year2026, d.date))

\* A search for "2026" kept some of three records and dropped another.
C16_Witness ==
    /\ searchTerm = Year2026
    /\ Len(arrays[bookingsProp]) = 3
    /\ Len(arrays[filteredBookings]) \in {1, 2}
    /\ \A d \in Range(arrays[bookingsProp]) : ~IsSubstring(Year2026, d.phone)

\* ------------------------------------------------------------------- C17

\* The order of lowercased text: s is a proper prefix of t, or at the first
\* place where they differ s has the smaller character.
LexLess(s, t) ==
    \E k \in 1..Len(t) :
        /\ \A i \in 1..(k - 1) : i <= Len(s) /\ s[i] = t[i]
        /\ k > Len(s) \/ CharCode(s[k]) < CharCode(t[k])

\* The key of a goes before the key of b: createdAt as timestamps, name and
\* date as lowercased text.
KeyBefore(a, b, field) ==
    IF field = "createdAt" THEN a.createdAt < b.createdAt
    ELSE LexLess(ToLowerCase(a[field]), ToLowerCase(b[field]))

SameKey(a, b, field) == ~KeyBefore(a, b, field) /\ ~KeyBefore(b, a, field)

PlaceIn(s, d) == CHOOSE k \in 1..Len(s) : s[k]._id = d._id

\* C17: for each sort field (createdAt, name, date) and direction the
\* displayed list is a permutation of the filtered list, ordered by the
\* field's key in that direction, and records of equal key keep the relative
\* order they have in the filtered list.
C17_SortOrderedAndStable ==
    LET given == arrays[filteredBookings]
        shown == arrays[sortedBookings]
        field == sortConfig.field
    IN  /\ IsListingOf(shown, given)
        /\ \A i, j \in 1..Len(shown) :
               i < j =>
                   /\ sortConfig.direction = "asc" => ~KeyBefore(shown[j], shown[i], field)
                   /\ sortConfig.direction = "desc" => ~KeyBefore(shown[i], shown[j], field)
                   /\ SameKey(shown[i], shown[j], field) =>
                          PlaceIn(given, shown[i]) < PlaceIn(given, shown[j])

\* A descending sort by name moved records and left two of equal name.
C17_Witness ==
    /\ sortConfig = [field |-> "name", direction |-> "desc"]
    /\ arrays[sortedBookings] # arrays[filteredBookings]
    /\ \E i, j \in 1..Len(arrays[sortedBookings]) :
          /\ i < j
          /\ SameKey(arrays[sortedBookings][i], arrays[sortedBookings][j], "name")

\* ------------------------------------------------------------------- C18

NameAscending == [field |-> "name", direction |-> "asc"]

\* C18: sorting by name ascending is idempotent: the name-ascending sort of
\* a list that is the result of a name-ascending sort is that same sequence,
\* records whose names are equal ignoring case included.
C18_NameSortIdempotent ==
    sortConfig = NameAscending =>
        ArraySort(arrays[sortedBookings], NameAscending) = arrays[sortedBookings]

\* A name-ascending sort moved records, two of them equal in name but for
\* the case.
C18_Witness ==
    /\ sortConfig = NameAscending
    /\ arrays[sortedBookings] # arrays[filteredBookings]
    /\ \E i, j \in 1..Len(arrays[sortedBookings]) :
          /\ i < j
          /\ arrays[sortedBookings][i].name # arrays[sortedBookings][j].name
          /\ SameKey(arrays[sortedBookings][i], arrays[sortedBookings][j], "name")

\* ------------------------------------------------------------------- C19

\* C19 as claimed: after any sequence of search-term and sort-option changes
\* the bookings list of the dashboard has the records, in the order, it was
\* fetched with, and each of filter and sort yields a new sequence, not the
\* sequence it was given.
C19_FilterAndSortYieldNewLists ==
    fetched # <<>> =>
        /\ arrays[bookingsProp] = fetched
        /\ filteredBookings # bookingsProp
        /\ sortedBookings # filteredBookings

\* C19 amended: the bookings list stays as it was fetched; the sort always
\* yields a new sequence; the filter yields a new sequence when there is a
\* search term and hands on the bookings list itself when the term is empty.
C19_InputListUnchanged ==
    /\ arrays[bookingsProp] = fetched
    /\ sortedBookings # filteredBookings
    /\ sortedBookings # bookingsProp
    /\ filteredBookings = bookingsProp <=> searchTerm = <<>>

\* With no search term, a sort by name put the fetched records in another
\* order.
C19_Witness ==
    /\ searchTerm = <<>>
    /\ sortConfig.field = "name"
    /\ Len(fetched) >= 2
    /\ arrays[sortedBookings] # fetched

\* ------------------------------------------------------------------- C20

\* C20: no operation of the service modifies a stored record: from its
\* creation to its deletion a record has the same identifier, name, email,
\* phone, date, timeSlot and createdAt in every state; a step of the service
\* leaves each record it does not delete as it was.
C20_RecordsNeverModified ==
    [][\A d \in Range(store) : \A e \in Range(store') : e._id = d._id => e = d]_vars

\* Two records outlived the delete of a third.
C20_Witness ==
    /\ Answered("deleteOne")
    /\ response.status = 200
    /\ Len(before) = 3
    /\ Len(store) = 2
    /\ Range(store) \subseteq Range(before)

\* ------------------------------------------------------------------- C21

\* The identifiers the service has handed out so far.
HandedOut == 1..(nextOid - 1)

\* C21: in every reachable state no two stored records share an identifier,
\* and an identifier removed by DeleteOne or DeleteAll is never assigned to a
\* record created later.  Every stored identifier is one that was handed out;
\* a step never takes an identifier back, and a record that enters the
\* collection carries an identifier that had not been handed out, so one that
\* was handed out and has left the collection stays out of it, and out of
\* every later listing.
C21_IdentifiersUniqueNeverReused ==
    /\ [](/\ \A i, j \in 1..Len(store) : i # j => store[i]._id # store[j]._id
          /\ IdsOf(store) \subseteq HandedOut)
    /\ [][/\ nextOid' >= nextOid
          /\ \A id \in IdsOf(store') \ IdsOf(store) : id \notin HandedOut
          /\ response'.op = "list" /\ response'.status = 200 =>
                IdsOf(response'.body.data) = IdsOf(store)]_vars

\* A record was created after one was deleted and another after the
\* collection was emptied, and the removed identifiers are not in use.
C21_Witness ==
    /\ Answered("create")
    /\ response.status = 201
    /\ nextOid = MaxDocs + 1
    /\ IdsOf(store) = {MaxDocs}

\* ------------------------------------------------------------------- C22

\* C22 as stated: createdAt is non-decreasing with insertion order, for every
\* interleaving of concurrent Create requests: a record inserted before
\* another has no later createdAt.
C22_CreatedAtFollowsInsertionOrder ==
    \A i, j \in 1..Len(store) : i < j => store[i].createdAt <= store[j].createdAt

\* The handler of caller c has just built its document.
Built(c) == handlers[c].pc = "received" /\ handlers'[c].pc = "saving"

\* C22, amended: createdAt is non-decreasing in the order in which the service
\* built the records, which is the order of their identifiers; a record that
\* was inserted before another was built has no later createdAt, while
\* Creates that overlap may reach the collection in either order.
C22_CreatedAtFollowsBuildOrder ==
    /\ [](\A d, e \in Stored : d._id < e._id => d.createdAt <= e.createdAt)
    /\ [][\A c \in Callers :
             Built(c) =>
                 \A d \in Stored : d.createdAt <= handlers'[c].newBooking.createdAt]_vars

\* Two Creates overlapped: the record built second, at a later reading of the
\* clock, was inserted first.
C22_Witness ==
    /\ Len(store) >= 2
    /\ store[1]._id > store[2]._id
    /\ store[1].createdAt > store[2].createdAt

\* ------------------------------------------------------------------- C23

\* The records of s that hold the five fields of record d.
Duplicates(s, d) == {i \in 1..Len(s) : \A f \in FieldSet : s[i][f] = d[f]}

\* What a Create answers, read off the submitted fields alone.
StatusByFields(req) == IF FailingFields(req) = {} THEN 201 ELSE 400

\* C23: the outcome of Create depends only on the submitted fields and never
\* on the records already stored: with the store available, a Create succeeds
\* exactly when its fields pass, however many stored records hold the same
\* date and timeSlot or the same name, email and phone, and each such Create
\* adds a further record.
C23_CreateIgnoresStoredRecords ==
    (Answered("create") /\ storeCall # "failed") =>
        /\ response.status = StatusByFields(request.body)
        /\ response.status = 400 => store = before
        /\ response.status = 201 =>
              /\ Len(store) = Len(before) + 1
              /\ Cardinality(Duplicates(store, response.body.data))
                     = Cardinality(Duplicates(before, response.body.data)) + 1

\* A third booking of the same person for the same date and time slot was
\* stored next to the two before it.
C23_Witness ==
    /\ Answered("create")
    /\ response.status = 201
    /\ Len(before) = 2
    /\ Cardinality(Duplicates(store, response.body.data)) = 3

\* ------------------------------------------------------------------- C24

\* C24: no create is retried automatically: a submission issues at most one
\* create request, the one carrying the form as submitted, and only when the
\* submit control is enabled; once a request has failed none is out until the
\* visitor submits again; the control is disabled for as long as a request is
\* out, so one form never has two creates out.
C24_NoRetryOneCreateInFlight ==
    /\ [](/\ Len(posts) <= 1
          /\ isLoading <=> posts # <<>>)
    /\ [][/\ Len(posts') > Len(posts) =>
                /\ ~isLoading
                /\ posts' = Append(posts, formData)
          /\ Len(posts') < Len(posts) => posts' = <<>> /\ ~isLoading'
          /\ Len(store') <= Len(store) + 1
          /\ Len(store') > Len(store) => Len(posts') < Len(posts)]_vars

\* A create failed at the server and nothing is out, the form still holding
\* what was submitted and the control enabled again.
C24_Witness ==
    /\ errors.submit = ServerError.message
    /\ posts = <<>>
    /\ ~isLoading
    /\ store = <<>>
    /\ DOMAIN ValidateBookingForm(formData) = {}

\* ------------------------------------------------------------------- C26

\* The fields of a form that fail their rule.
FailingOnForm(form) == {f \in FieldSet : FailsItsRule(f, form[f])}

\* C26: the form sends a create request only when the whole-form check
\* returns no errors: when a field fails, submit sets the errors to the full
\* mapping of the failing fields, sends nothing and leaves the form data as
\* entered; on a successful answer the form data is emptied and the errors are
\* cleared; on a failed answer the form data is kept.
C26_SubmitOnlyWhenFormPasses ==
    [][/\ Len(posts') > Len(posts) =>
             /\ FailingOnForm(formData) = {}
             /\ formData' = formData
       /\ (SubmitForm /\ FailingOnForm(formData) # {}) =>
             /\ DOMAIN errors'.fields = FailingOnForm(formData)
             /\ \A f \in FailingOnForm(formData) :
                    errors'.fields[f] \in FormMessages[f]
             /\ posts' = posts
             /\ formData' = formData
             /\ store' = store
       /\ (SubmitAnswered /\ Len(store') > Len(store)) =>
             /\ formData' = EmptyForm
             /\ errors' = NoErrors
       /\ (SubmitAnswered /\ store' = store) =>
             /\ formData' = formData
             /\ errors'.submit # <<>>]_vars

\* The server refused a form that the client's check had passed, the visitor
\* having changed a field while the request was out: the form is as the
\* visitor left it.
C26_Witness ==
    /\ errors.submit = <<"Name cannot exceed 100 characters">>
    /\ posts = <<>>
    /\ formData.name = Al
    /\ store = <<>>

\* ------------------------------------------------------------------- C25

\* The flag of the admin session is set.
FlagSet == GetItem("isAdminLoggedIn") = "true"


\* C25: the flag isAdminLoggedIn is set on a successful login and cleared on
\* logout: it becomes 'true' only by a login submitted with exactly the
\* username 'admin' and the password 'admin123'; a failed login does not
\* touch it and shows an error; logout removes it; and within the steps of
\* the app the dashboard shows only in states where the flag is set.
C25_FlagSetOnLoginClearedOnLogout ==
    /\ [](DashboardShown => FlagSet)
    /\ [](DOMAIN sessionStorage \subseteq {"isAdminLoggedIn"})
    /\ [][/\ (~FlagSet /\ FlagSet') =>
                /\ timeouts # <<>>
                /\ Head(timeouts).username = "admin"
                /\ Head(timeouts).password = "admin123"
                /\ timeouts' = Tail(timeouts) \/ timeouts' = Orphaned(Tail(timeouts))
          /\ (TimeoutRuns /\ ~(/\ Head(timeouts).username = "admin"
                               /\ Head(timeouts).password = "admin123")) =>
                /\ sessionStorage' = sessionStorage
                /\ isLoggedIn' = isLoggedIn
                /\ Head(timeouts).live =>
                       adminLogin'.error = "Invalid username or password"
          /\ HandleLogout => ~FlagSet' /\ ~DashboardShown'
          /\ (FlagSet /\ ~FlagSet') => DashboardShown]_vars

\* A login with admin and admin123 went through: the flag is set and the
\* dashboard shows.
C25_Witness ==
    /\ DashboardShown
    /\ FlagSet
    /\ timeouts = <<>>

\* ------------------------------------------------------------------- C27

\* Caller c has the 201 of a Create in hand.
Created(c) == handlers[c].op = "create" /\ handlers[c].res.status = 201

\* C27: a caller cannot choose the identifier or the createdAt of a record:
\* Create builds the record from the name, email, phone, date and timeSlot of
\* the request only.  Every stored identifier is one the service handed out
\* and every createdAt a reading of its clock; the record a Create returns
\* holds the five fields of the body through the schema's setters, and an _id
\* or createdAt in the body is not the one the record gets.
C27_CallerCannotChooseIdOrCreatedAt ==
    /\ \A d \in Stored : d._id \in HandedOut /\ d.createdAt \in 0..clock
    /\ \A c \in Callers :
          Created(c) =>
              LET d == handlers[c].res.body.data
                  body == handlers[c].body
              IN  /\ DOMAIN d = FieldSet \cup {"_id", "createdAt"}
                  /\ \A f \in FieldSet : d[f] = ApplySetters(f, body[f])
                  /\ "_id" \in DOMAIN body => d._id # body._id
                  /\ "createdAt" \in DOMAIN body => d.createdAt # body.createdAt
                  /\ d._id \in HandedOut /\ d.createdAt \in 0..clock

\* A Create whose body carried an _id and a createdAt was stored.
C27_Witness ==
    \E c \in Callers :
        /\ Created(c)
        /\ handlers[c].body = ForgedBody
        /\ Len(store) = 2

\* ------------------------------------------------------------------- C29

\* Callers c and e both asked to delete the record of one identifier, which
\* was stored when each of the requests arrived, and both have their answer
\* from a store that was available.
BothDeleted(c, e) ==
    /\ c # e
    /\ handlers[c].op = "deleteOne" /\ handlers[e].op = "deleteOne"
    /\ handlers[c].id = handlers[e].id
    /\ handlers[c].existed /\ handlers[e].existed
    /\ handlers[c].storeCall = "ok" /\ handlers[e].storeCall = "ok"

\* The step is the store's part of the DeleteOne of caller c.
Deletes(c) == handlers[c].pc = "received" /\ handlers'[c].storeCall = "ok"
                  /\ handlers[c].op = "deleteOne"

\* C29: when two DeleteOne requests for the same existing identifier run
\* side by side, in every interleaving one of them answers 200 and the other
\* 404, and the record is removed once with no other record affected: never
\* both answer 200, one of them does when no third caller is there to remove
\* the record first, the step of each leaves every record of another
\* identifier where it was, and only the one that answers 200 removes a
\* record.
C29_OneOfTwoDeletesSucceeds ==
    /\ [](\A c, e \in Callers :
             BothDeleted(c, e) =>
                 /\ {handlers[c].res.status, handlers[e].res.status}
                        \subseteq {200, 404}
                 /\ ~(handlers[c].res.status = 200 /\ handlers[e].res.status = 200)
                 /\ (\A x \in Callers : x \in {c, e}) =>
                        200 \in {handlers[c].res.status, handlers[e].res.status}
                 /\ handlers[c].id.oid \notin StoredIds)
    /\ [][\A c \in Callers :
             Deletes(c) =>
                 /\ store' = SelectSeq(store, LAMBDA d : d._id # handlers[c].id.oid)
                 /\ handlers'[c].res.status = 200 <=> Len(store') = Len(store) - 1
                 /\ handlers'[c].res.status = 404 <=> store' = store]_vars

\* Two deletes of the second of two stored records ran side by side; one got
\* 200, the other 404, and the first record is still stored.
C29_Witness ==
    /\ BothDeleted(1, 2)
    /\ handlers[1].res.status = 404
    /\ handlers[2].res.status = 200
    /\ Len(store) = 1
    /\ handlers[1].id.oid > store[1]._id

\* ------------------------------------------------------------------- C28

\* C28: in the admin dashboard, whenever the fetch that completed last
\* succeeded, no load-failure error shows: a successful Refresh or Try Again
\* after a failed fetch clears 'Failed to load bookings'; and isLoading is
\* false after every fetch, whether it succeeded or failed.
C28_NoLoadErrorAfterSuccessfulFetch ==
    /\ [](got = 200 => dashboard.error = "")
    /\ [][gets' < gets => ~dashboard'.isLoading]_vars

\* ------------------------------------------------------------------- C30

\* The day in February 2026 that a stored date stands for.
DayOf(text) ==
    CHOOSE d \in 1..FebruaryDays : text \in {FebruaryDate(d), DateInputValue(d)}

\* C30: the sort option 'Date (Earliest)' displays the bookings in the order
\* of their appointment dates, earliest first, and 'Date (Latest)' latest
\* first, for every date the system stores, in the form 'February X, 2026' and
\* in the form of the date input.
C30_DateSortIsChronological ==
    LET shown == arrays[sortedBookings]
    IN  sortConfig.field = "date" =>
            \A i, j \in 1..Len(shown) :
                i < j =>
                    IF sortConfig.direction = "asc"
                    THEN DayOf(shown[i].date) <= DayOf(shown[j].date)
                    ELSE DayOf(shown[i].date) >= DayOf(shown[j].date)

====
